---- MODULE Spec2Model ----
(***************************************************************************)
(* A model of the typedai agent runtime's durable stores and of its merge  *)
(* request review engine:                                                   *)
(*   - FirestoreLlmCallService   (LLM call store with message chunking,     *)
(*                                 the chunking loop alone, delete)         *)
(*   - FirestoreAgentStateService (agent contexts, parent/child links,      *)
(*                                 contexts in memory, listRunning)         *)
(*   - GitLabCodeReview.reviewMergeRequest (fingerprint cache, comments)    *)
(*   - checkHumanInTheLoop       (human-in-the-loop gates of the runner)    *)
(* Each subsystem has its own next-state relation and specification; the    *)
(* variables of the other subsystems stay at their initial values.          *)
(***************************************************************************)
EXTENDS Integers, Sequences, FiniteSets, TLC

VARIABLES
    heads,      \* LlmCall/<id> head documents
    chunks,     \* LlmCall/<id>-<k> chunk documents
    llmLast,    \* the last LLM call store operation and its outcome
    agents,     \* AgentContext/<agentId> documents
    ufLoaded,   \* the context an updateFunctions call in progress has loaded
    agLast,     \* the last agent store operation and its outcome; id is the agent
                \* of a rejected save, or a parent a delete removed with a stored child
    mrCache,    \* the fingerprint cache document of the merge request
    notes,      \* the discussion notes of the merge request, oldest first
    rv,         \* the review run: position, working cache, results
    hil,        \* the runner at its human-in-the-loop gates
    packIn,     \* the message sequence handed to the chunking loop
    packOut,    \* the chunk documents the chunking loop produced for packIn
    ctxDocs,    \* AgentContext/<agentId> documents of the runner's agents
    ctxMem,     \* the AgentContext objects the runner holds in memory
    ctxLoaded,  \* the context an updateFunctions call on a runner's agent has loaded
    clock,      \* Date.now()
    ctxLast,    \* the last call on the runner's agents and its outcome
    listed,     \* the result of the last listRunning()
    fb,         \* a generateTextFromMessages call of the composite LLM: input and outcome
    uc,         \* the user bindings of a task and the outcome of currentUser()
    cacheGot,   \* the outcome of the last getMergeRequestReviewCache call
    fp,         \* two diffs of one file and the fingerprints computed for them
    fs,         \* the working directory of the file system service and the disk
    gen,        \* one generate call of an LLM wrapper that records the call
    tk,         \* the process-wide tokenizer and the countTokens calls in flight
    mrDocs,     \* the fingerprint cache documents by document id
    runs        \* two review runs of one merge request that overlap

llmVars == <<heads, chunks, llmLast>>

agentVars == <<agents, ufLoaded, agLast>>

reviewVars == <<mrCache, notes, rv>>

hilVars == <<hil>>

packVars == <<packIn, packOut>>

ctxVars == <<ctxDocs, ctxMem, ctxLoaded, clock, ctxLast, listed>>

fnVars == <<fb, uc, cacheGot, fp>>

svcVars == <<fs, gen, tk, mrDocs, runs>>

(***************************************************************************)
(* LLM call store: sizes                                                    *)
(***************************************************************************)

\* Firestore document size limit
MAX_DOC_SIZE == 1000000

\* Length of the id generated by randomUUID()
IdLen == 36

\* JSON text of a chunk document around its id, index and messages array:
\* {"llmCallId":"","chunkIndex":,"messages":}
EnvelopeBase == 42

\* JSON text added to the metadata object by the messages key: ,"messages":
MessagesKey == 12

\* Longest message sequence of a call
MaxMsgs == 2

CallIds == {"c1", "c2"}

ChunkIdx == 1..MaxMsgs

\* JSON sizes of the metadata object {...dataToSave} of a save
MetaSizes == {200}

\* Digits of a chunk index in its JSON text
Digits(n) == IF n < 10 THEN 1 ELSE IF n < 100 THEN 2 ELSE 3

\* Size of the largest message that alone fills a first chunk document exactly
FitSize == MAX_DOC_SIZE - EnvelopeBase - IdLen - 1 - 2

\* Size of the message that alone makes the whole call exactly MAX_DOC_SIZE
AtLimitSize(meta) == MAX_DOC_SIZE - meta - MessagesKey - 2

\* The messages of the model: a role and the byte length of the message's JSON.
\* Alone under the metadata of MetaSizes, the assistant messages make a call
\* of exactly MAX_DOC_SIZE and of one byte less; the last message does not fit
\* in a chunk document.
Messages ==
    { [role |-> "user", size |-> 100],
      [role |-> "system", size |-> 600000],
      [role |-> "user", size |-> FitSize + 1] }
    \cup { [role |-> "assistant", size |-> AtLimitSize(m) - 1] : m \in MetaSizes }
    \cup { [role |-> "assistant", size |-> AtLimitSize(m)] : m \in MetaSizes }

RECURSIVE SeqsUpTo(_, _)
SeqsUpTo(S, n) ==
    IF n = 0 THEN {<<>>}
    ELSE LET shorter == SeqsUpTo(S, n - 1)
         IN shorter \cup { Append(s, x) : s \in {t \in shorter : Len(t) = n - 1}, x \in S }

MessageSeqs == SeqsUpTo(Messages, MaxMsgs)

RECURSIVE SumSizes(_)
SumSizes(ms) == IF ms = <<>> THEN 0 ELSE Head(ms).size + SumSizes(Tail(ms))

\* JSON.stringify of an array of messages: brackets, elements, commas
ArraySize(ms) == 2 + SumSizes(ms) + (IF Len(ms) > 0 THEN Len(ms) - 1 ELSE 0)

\* estimateSize({ ...dataToSave, messages })
estimateCallSize(meta, ms) == meta + MessagesKey + ArraySize(ms)

\* estimateSize({ llmCallId, chunkIndex, messages })
estimateChunkSize(idx, ms) == EnvelopeBase + IdLen + Digits(idx) + ArraySize(ms)

(***************************************************************************)
(* LLM call store: documents                                                *)
(***************************************************************************)

NoHead == [exists |-> FALSE, chunkCount |-> 0, hasMessages |-> FALSE, messages |-> <<>>]

NoChunk == [exists |-> FALSE, messages |-> <<>>]

\* The greedy packing loop of the chunked branch: the list of chunks, in order
RECURSIVE PackLoop(_, _, _, _)
PackLoop(rest, idx, cur, done) ==
    IF rest = <<>>
    THEN IF Len(cur) > 0 THEN Append(done, cur) ELSE done
    ELSE LET m == Head(rest)
             potentialChunkSize == estimateChunkSize(idx, Append(cur, m))
         IN IF potentialChunkSize >= MAX_DOC_SIZE /\ Len(cur) > 0
            THEN PackLoop(Tail(rest), idx + 1, <<m>>, Append(done, cur))
            ELSE PackLoop(Tail(rest), idx, Append(cur, m), done)

PackChunks(ms) == PackLoop(ms, 1, <<>>, <<>>)

\* The chunked branch without its single-message check
NoMessageTooLarge(ms) == FALSE

\* The single-message check of the chunked branch
SingleMessageTooLarge(ms) ==
    \E i \in 1..Len(ms) : estimateChunkSize(1, <<ms[i]>>) > MAX_DOC_SIZE

\* set(data, {merge}) on the head document of a chunked save
ChunkedHead(old, n, merge) ==
    IF merge /\ old.exists
    THEN [old EXCEPT !.chunkCount = n]
    ELSE [exists |-> TRUE, chunkCount |-> n, hasMessages |-> FALSE, messages |-> <<>>]

\* _saveOrUpdateLlmCall: one document, or a batch of chunks and the head
SaveOrUpdateLlmCall(op, id, meta, ms, merge) ==
    IF estimateCallSize(meta, ms) < MAX_DOC_SIZE
    THEN /\ heads' = [heads EXCEPT ![id] =
                [exists |-> TRUE, chunkCount |-> 0, hasMessages |-> TRUE, messages |-> ms]]
         /\ UNCHANGED chunks
         /\ llmLast' = [op |-> op, id |-> id, ok |-> TRUE, chunked |-> FALSE]
    ELSE IF SingleMessageTooLarge(ms)
    THEN /\ UNCHANGED <<heads, chunks>>
         /\ llmLast' = [op |-> op, id |-> id, ok |-> FALSE, chunked |-> TRUE]
    ELSE LET packed == PackChunks(ms)
         IN /\ chunks' = [chunks EXCEPT ![id] =
                    [k \in ChunkIdx |->
                        IF k <= Len(packed)
                        THEN [exists |-> TRUE, messages |-> packed[k]]
                        ELSE @[k]]]
            /\ heads' = [heads EXCEPT ![id] = ChunkedHead(@, Len(packed), merge)]
            /\ llmLast' = [op |-> op, id |-> id, ok |-> TRUE, chunked |-> TRUE]

\* saveRequest of one of the message lists seqs: a fresh id (randomUUID), merge = false
SaveRequestIn(ids, seqs) ==
    \E id \in ids, meta \in MetaSizes, ms \in seqs :
        /\ ~heads[id].exists
        /\ \A k \in ChunkIdx : ~chunks[id][k].exists
        /\ SaveOrUpdateLlmCall("saveRequest", id, meta, ms, FALSE)
        /\ UNCHANGED <<agentVars, reviewVars, hilVars, packVars, ctxVars, fnVars, svcVars>>

\* saveResponse of one of the message lists seqs: the id of the call, merge = true
SaveResponseIn(ids, seqs) ==
    \E id \in ids, meta \in MetaSizes, ms \in seqs :
        /\ SaveOrUpdateLlmCall("saveResponse", id, meta, ms, TRUE)
        /\ UNCHANGED <<agentVars, reviewVars, hilVars, packVars, ctxVars, fnVars, svcVars>>

SaveRequest(ids) == SaveRequestIn(ids, MessageSeqs)

SaveResponse(ids) == SaveResponseIn(ids, MessageSeqs)

\* delete(llmCallId): the head document after the batch
DeletedHeads(hs, id) == [hs EXCEPT ![id] = NoHead]

\* A delete that removes the head document alone
KeptChunks(cs, id) == cs

\* delete(llmCallId): the chunk documents after the batch.  The query on the
\* llmCallId field returns every chunk document written for the call.
DeletedChunks(cs, id) == [cs EXCEPT ![id] = [k \in ChunkIdx |-> NoChunk]]

\* delete(llmCallId); chunked records whether chunk documents were among the
\* documents of the batch
DeleteLlmCall(ids) ==
    \E id \in ids :
        /\ heads' = DeletedHeads(heads, id)
        /\ chunks' = DeletedChunks(chunks, id)
        /\ llmLast' = [op |-> "delete", id |-> id, ok |-> TRUE,
                       chunked |-> \E k \in ChunkIdx : chunks[id][k].exists]
        /\ UNCHANGED <<agentVars, reviewVars, hilVars, packVars, ctxVars, fnVars, svcVars>>

\* The chunk documents the query of getCall returns, in ascending chunkIndex
RECURSIVE ChunkMessagesFrom(_, _)
ChunkMessagesFrom(id, k) ==
    IF k > MaxMsgs THEN <<>>
    ELSE (IF chunks[id][k].exists THEN chunks[id][k].messages ELSE <<>>)
         \o ChunkMessagesFrom(id, k + 1)

StoredChunkCount(id) == Cardinality({k \in ChunkIdx : chunks[id][k].exists})

\* getCall(id).messages; the call is absent when the head is
getCallMessages(id) ==
    IF heads[id].chunkCount = 0
    THEN (IF heads[id].hasMessages THEN heads[id].messages ELSE <<>>)
    ELSE ChunkMessagesFrom(id, 1)

\* getCall(id): absent without a head document
Absent == [found |-> FALSE, messages |-> <<>>]

getCall(id) ==
    IF ~heads[id].exists THEN Absent
    ELSE [found |-> TRUE, messages |-> getCallMessages(id)]

LlmInit ==
    /\ heads = [id \in CallIds |-> NoHead]
    /\ chunks = [id \in CallIds |-> [k \in ChunkIdx |-> NoChunk]]
    /\ llmLast = [op |-> "none", id |-> "c1", ok |-> TRUE, chunked |-> FALSE]

\* The message lists of the calls that are saved and deleted under two ids: a
\* call of one document, a call of two chunks, one of a single chunk, and two
\* calls with a message that does not fit in a chunk document
CallSeqs ==
    { << [role |-> "user", size |-> 100] >>,
      << [role |-> "system", size |-> 600000], [role |-> "system", size |-> 600000] >>,
      << [role |-> "assistant", size |-> FitSize] >>,
      << [role |-> "user", size |-> 100], [role |-> "user", size |-> FitSize + 1] >>,
      << [role |-> "user", size |-> FitSize + 1] >> }

(***************************************************************************)
(* LLM call store: the chunking of one message list                         *)
(***************************************************************************)

\* Longest message list handed to the chunking loop
MaxPackLen == 10

\* A message that alone fills a first chunk document exactly, and a smaller one
PackPool ==
    { [role |-> "user", size |-> FitSize],
      [role |-> "system", size |-> 600000] }

\* The message lists: every list over the pool, and a message no chunk can hold
PackInputs ==
    SeqsUpTo(PackPool, MaxPackLen) \cup { << [role |-> "user", size |-> FitSize + 1] >> }

NotPacked == [done |-> FALSE, chunked |-> FALSE, rejected |-> FALSE, chunks |-> <<>>]

PackIdle ==
    /\ packIn = <<>>
    /\ packOut = NotPacked

\* The documents _saveOrUpdateLlmCall writes for a message list: none in
\* packOut.chunks when the call fits in one document or a message is rejected
PackedCall(meta, ms) ==
    IF estimateCallSize(meta, ms) < MAX_DOC_SIZE
    THEN [done |-> TRUE, chunked |-> FALSE, rejected |-> FALSE, chunks |-> <<>>]
    ELSE IF SingleMessageTooLarge(ms)
    THEN [done |-> TRUE, chunked |-> TRUE, rejected |-> TRUE, chunks |-> <<>>]
    ELSE [done |-> TRUE, chunked |-> TRUE, rejected |-> FALSE, chunks |-> PackChunks(ms)]

Pack ==
    /\ ~packOut.done
    /\ \E meta \in MetaSizes : packOut' = PackedCall(meta, packIn)
    /\ UNCHANGED <<packIn, llmVars, agentVars, reviewVars, hilVars, ctxVars, fnVars, svcVars>>

\* The messages of a list of chunks, in order
RECURSIVE Flatten(_)
Flatten(cs) == IF cs = <<>> THEN <<>> ELSE Head(cs) \o Flatten(Tail(cs))

(***************************************************************************)
(* Agent state store                                                        *)
(***************************************************************************)

\* Agent ids, in the order the agents are created: a parent precedes its children
AgentIds == {1, 2, 3}

NoParent == 0

Users == {"u1", "u2"}

\* currentUser() of the caller of delete
CurrentUser == "u1"

AgentStates == {"agent", "completed"}

\* A list of terminal states that also holds error
TerminalStatesWithError == {"completed", "shutdown", "timeout", "error"}

TerminalStates == {"completed", "shutdown", "timeout"}

isExecuting(state) == state \notin TerminalStates

NoAgent == [exists |-> FALSE, user |-> "u1", state |-> "agent", parent |-> NoParent,
            childAgents |-> {}]

NoLoad == [active |-> FALSE, id |-> NoParent, ctx |-> NoAgent]

\* The contexts save can be handed for agent a. A new agent has no children yet;
\* the context of a stored agent keeps its user and parent, and its childAgents
\* is the stored set or an older copy of it.
SaveContexts(a) ==
    IF agents[a].exists
    THEN { [exists |-> TRUE, user |-> agents[a].user, state |-> st,
            parent |-> agents[a].parent, childAgents |-> cs] :
                st \in AgentStates, cs \in SUBSET agents[a].childAgents }
    ELSE { [exists |-> TRUE, user |-> u, state |-> st, parent |-> p, childAgents |-> {}] :
                u \in Users, st \in AgentStates,
                p \in {NoParent} \cup {b \in AgentIds : b < a} }

\* save(state) without the transaction's check of the parent: the child is
\* written although its parent is missing
SavedAgentsUnchecked(docs, a, ctx) ==
    IF ctx.parent # NoParent /\ docs[ctx.parent].exists
    THEN [docs EXCEPT ![ctx.parent].childAgents = @ \cup {a}, ![a] = ctx]
    ELSE [docs EXCEPT ![a] = ctx]

\* save(state): the transaction for a child, a single set otherwise.
\* The documents after the call; unchanged when the parent is missing.
SavedAgents(docs, a, ctx) ==
    IF ctx.parent # NoParent
    THEN IF ~docs[ctx.parent].exists
         THEN docs
         ELSE [docs EXCEPT ![ctx.parent].childAgents = @ \cup {a}, ![a] = ctx]
    ELSE [docs EXCEPT ![a] = ctx]

\* Whether save(state) throws: the parent of a child is not stored
SaveRejected(docs, ctx) == ctx.parent # NoParent /\ ~docs[ctx.parent].exists

Save ==
    \E a \in AgentIds : \E ctx \in SaveContexts(a) :
        /\ agents' = SavedAgents(agents, a, ctx)
        /\ agLast' = [op |-> "save", ok |-> ~SaveRejected(agents, ctx),
                      id |-> IF SaveRejected(agents, ctx) THEN a ELSE NoParent]
        /\ UNCHANGED <<ufLoaded, llmVars, reviewVars, hilVars, packVars, ctxVars, fnVars, svcVars>>

\* updateState(ctx, state): docRef.update of two fields, which fails without a document
UpdatedState(docs, a, st) ==
    IF docs[a].exists THEN [docs EXCEPT ![a].state = st] ELSE docs

UpdateState ==
    \E a \in AgentIds, st \in AgentStates :
        /\ agents' = UpdatedState(agents, a, st)
        /\ agLast' = [op |-> "updateState", ok |-> agents[a].exists, id |-> NoParent]
        /\ UNCHANGED <<ufLoaded, llmVars, reviewVars, hilVars, packVars, ctxVars, fnVars, svcVars>>

\* A delete whose filters let agents with a parent through
DeletableWithChildren(docs, ids) ==
    { a \in ids :
        /\ docs[a].exists
        /\ docs[a].user = CurrentUser
        /\ ~isExecuting(docs[a].state) }

\* The agents delete(ids) keeps after its four filters
Deletable(docs, ids) ==
    { a \in ids :
        /\ docs[a].exists
        /\ docs[a].user = CurrentUser
        /\ ~isExecuting(docs[a].state)
        /\ docs[a].parent = NoParent }

\* The documents the delete batch removes: each kept agent and its listed children
DeleteBatch(docs, ids) ==
    Deletable(docs, ids) \cup UNION { docs[a].childAgents : a \in Deletable(docs, ids) }

Delete ==
    \E ids \in SUBSET AgentIds :
        /\ ids # {}
        /\ agents' = [a \in AgentIds |->
                        IF a \in DeleteBatch(agents, ids) THEN NoAgent ELSE agents[a]]
        /\ agLast' = [op |-> "delete", ok |-> TRUE,
                      id |-> LET cascaded == { p \in Deletable(agents, ids) :
                                     \E c \in agents[p].childAgents : agents[c].exists }
                             IN IF cascaded = {} THEN NoParent
                                ELSE CHOOSE p \in cascaded : \A q \in cascaded : p <= q]
        /\ UNCHANGED <<ufLoaded, llmVars, reviewVars, hilVars, packVars, ctxVars, fnVars, svcVars>>

\* updateFunctions(agentId, functions), first half: load(agentId)
UpdateFunctionsLoad ==
    \E a \in AgentIds :
        /\ ~ufLoaded.active
        /\ IF agents[a].exists
           THEN /\ ufLoaded' = [active |-> TRUE, id |-> a, ctx |-> agents[a]]
                /\ UNCHANGED agLast
           ELSE /\ UNCHANGED ufLoaded
                /\ agLast' = [op |-> "updateFunctions", ok |-> FALSE, id |-> NoParent]
        /\ UNCHANGED <<agents, llmVars, reviewVars, hilVars, packVars, ctxVars, fnVars, svcVars>>

\* updateFunctions(agentId, functions), second half: save(agent) of the loaded context
UpdateFunctionsSave ==
    /\ ufLoaded.active
    /\ agents' = SavedAgents(agents, ufLoaded.id, ufLoaded.ctx)
    /\ agLast' = [op |-> "updateFunctions", ok |-> ~SaveRejected(agents, ufLoaded.ctx),
                  id |-> NoParent]
    /\ ufLoaded' = NoLoad
    /\ UNCHANGED <<llmVars, reviewVars, hilVars, packVars, ctxVars, fnVars, svcVars>>

\* load(agentId): the stored context, or absent
load(docs, a) == IF docs[a].exists THEN docs[a] ELSE NoAgent

AgentInit ==
    /\ agents = [a \in AgentIds |-> NoAgent]
    /\ ufLoaded = NoLoad
    /\ agLast = [op |-> "none", ok |-> TRUE, id |-> NoParent]

AgentNext ==
    \/ Save
    \/ UpdateState
    \/ Delete
    \/ UpdateFunctionsLoad
    \/ UpdateFunctionsSave

(***************************************************************************)
(* Merge request code review: GitLabCodeReview.reviewMergeRequest           *)
(***************************************************************************)

\* Reviews of the merge request that are run, one after the other
MaxRuns == 2

ProjectId == "grp/prj"

MrIid == 1

\* GITLAB_BOT_USER_ID, configured as the id of the account that posts the notes
BOT_USER_ID == 7

\* Another GitLab user commenting on the merge request
OtherUserId == 9

\* comment.lineNumber of an element that has no such property
UndefinedLine == -1

\* Pieces of text: literal text of the program, and text that is data
Lit(s) == <<"lit", s>>

Str(s) == <<"str", s>>

\* The diffs of the merge request, unchanged from run to run.  A diff line is
\* its marker ("+", " " or "-") and its text.
Diffs ==
    << [new_path |-> "a.ts", ext |-> "ts", start |-> 1,
        lines |-> << <<"+", "x">>, <<"-", "old">>, <<" ", "y">> >>],
       [new_path |-> "b.py", ext |-> "py", start |-> 4,
        lines |-> << <<"+", "z">> >>] >>

\* The enabled rule that applies to every diff
RuleId == "r1"

\* The review units in the order of the loops over diffs and rules
UnitIds == 1..Len(Diffs)

\* getBlankLineCommenter: the line number comment, or an empty line when the
\* extension is not recognised
LineComment(ext, n) ==
    IF ext \in {"ts", "js", "java", "py", "sh", "sql", "xml"} THEN <<"num", n>> ELSE <<"blank">>

RECURSIVE KeptLines(_)
KeptLines(ls) ==
    IF ls = <<>> THEN <<>>
    ELSE IF Head(ls)[1] = "-" THEN KeptLines(Tail(ls))
         ELSE <<Head(ls)[2]>> \o KeptLines(Tail(ls))

RECURSIVE NumberedLines(_, _, _)
NumberedLines(ext, n, texts) ==
    IF texts = <<>> THEN <<>>
    ELSE <<LineComment(ext, n), <<"code", Head(texts)>>>> \o NumberedLines(ext, n + 1, Tail(texts))

\* prepareCodeForReview: removed lines dropped; one rendering with a line
\* number comment before each line, one with the bare lines
prepareCodeForReview(diff) ==
    [codeWithLines |-> NumberedLines(diff.ext, diff.start, KeptLines(diff.lines)),
     codeWithoutLines |-> KeptLines(diff.lines)]

\* sha256 of a text: different texts have different hashes
hashString(content) == <<"sha256", content>>

generateReviewUnitFingerprint(projectId, mrIid, filePath, ruleId, ruleVersion, diffContentHash) ==
    <<"sha256", "prj", projectId, "mr", mrIid, "file", filePath, "rule", ruleId,
      "ruleVer", IF ruleVersion = "" THEN "v0" ELSE ruleVersion, "content", diffContentHash>>

\* The fingerprint of the unit of a diff and the rule as reviewMergeRequest
\* computes it: no rule version, the hash of the code without line numbers
FingerprintOf(diff) ==
    generateReviewUnitFingerprint(ProjectId, MrIid, diff.new_path, RuleId, "",
                                  hashString(prepareCodeForReview(diff).codeWithoutLines))

Fingerprint(u) == FingerprintOf(Diffs[u])

AllFingerprints == {Fingerprint(u) : u \in UnitIds}

MinOf(S) == CHOOSE i \in S : \A k \in S : i <= k

MaxOf2(a, b) == IF a > b THEN a ELSE b

MinOf2(a, b) == IF a < b THEN a ELSE b

\* getCodeContext: the code lines within windowSize lines of the line that
\* follows the comment of targetLineNumber
getCodeContext(lines, targetLineNumber, windowSize) ==
    LET found == {i \in 2..Len(lines) :
                    lines[i - 1][1] = "num" /\ lines[i - 1][2] = targetLineNumber}
    IN IF found = {} THEN << <<"context_not_found_for_line_", targetLineNumber>> >>
       ELSE LET t == MinOf(found)
                window == SubSeq(lines, MaxOf2(1, t - windowSize),
                                 MinOf2(Len(lines), t + windowSize))
                IsCode(l) == l[1] # "num"
                kept == SelectSeq(window, IsCode)
            IN IF kept = <<>> THEN <<lines[t]>> ELSE kept

generateContextHash(ruleId, filePath, lineNumber, codeLinesAroundViolation) ==
    <<"sha1", ruleId, filePath, lineNumber, codeLinesAroundViolation>>

generateIdentifier(ruleId, filePath, contextHash) ==
    <<Lit("bot-review-id:"), Lit(" rule="), Str(ruleId), Lit(", file="), Str(filePath),
      Lit(", contextHash="), contextHash>>

NoIdentifier == <<>>

\* extractIdentifier: the first match of /<!-- (bot-review-id:.*?) -->/
extractIdentifier(commentBody) ==
    LET Ends(i, j) == /\ commentBody[j] = Lit(" -->")
                      /\ \A k \in (i + 2)..(j - 1) : commentBody[k] # Lit("\n\n")
        Starts == {i \in 1..(Len(commentBody) - 1) :
                     /\ commentBody[i] = Lit("<!-- ")
                     /\ commentBody[i + 1] = Lit("bot-review-id:")
                     /\ \E j \in (i + 2)..Len(commentBody) : Ends(i, j)}
    IN IF Starts = {} THEN NoIdentifier
       ELSE LET i == MinOf(Starts)
                j == MinOf({e \in (i + 2)..Len(commentBody) : Ends(i, e)})
            IN SubSeq(commentBody, i + 1, j - 1)

\* The body of a posted note: the hidden tag, a blank line, the comment
CommentBody(violationIdentifier, comment) ==
    <<Lit("<!-- ")>> \o violationIdentifier \o <<Lit(" -->"), Lit("\n\n"), Str(comment)>>

\* The identifiers found in the notes of the bot
ExistingViolationIdentifiers(ns) ==
    {extractIdentifier(ns[i].body) : i \in {k \in 1..Len(ns) : ns[k].author = BOT_USER_ID}}
        \ {NoIdentifier}

\* The duplicate check on a violation that is always negative
NeverCommented(existing, violationIdentifier) == FALSE

\* The duplicate check on a violation
AlreadyCommented(existing, violationIdentifier) == violationIdentifier \in existing

\* The cache check that never hits
NeverCached(fingerprints, fingerprint) == FALSE

\* The cache check on a unit
IsCached(fingerprints, fingerprint) == fingerprint \in fingerprints

(***************************************************************************)
(* The values an LLM response can carry in its violations field             *)
(***************************************************************************)
Comment1 == [lineNumber |-> 1, comment |-> "m1"]

\* What iterating a non-empty string gives: no lineNumber, no comment
CharComment == [lineNumber |-> UndefinedLine, comment |-> "undefined"]

ViolationValues ==
    { [type |-> "array", items |-> <<>>],
      [type |-> "array", items |-> <<Comment1>>],
      [type |-> "array", items |-> <<Comment1, Comment1>>],
      [type |-> "undefined", items |-> <<>>],
      [type |-> "object", items |-> <<>>],
      [type |-> "string", items |-> <<CharComment>>] }

Undefined == [type |-> "undefined", items |-> <<>>]

\* generateJson: an object, null, or an error thrown
Responses ==
    {[kind |-> "object", violations |-> v] : v \in ViolationValues}
        \cup {[kind |-> "null", violations |-> Undefined],
              [kind |-> "error", violations |-> Undefined]}

\* !value
LogicalNot(v) == [type |-> "boolean", items |-> <<>>]

IsArray(v) == v.type = "array"

\* reviewComments?.violations
OptionalViolations(resp) == IF resp.kind = "null" THEN Undefined ELSE resp.violations

\* The guard of reviewDiff on the response
ResponseRejected(resp) == IsArray(LogicalNot(OptionalViolations(resp)))

NoResult == [state |-> "none", shape |-> "none", comments |-> Undefined]

PendingResult == [state |-> "pending", shape |-> "none", comments |-> Undefined]

\* reviewDiff inside the mapping of reviewMergeRequest: null when the guard
\* rejects the response or when an error is thrown, the review otherwise
reviewDiff(resp) ==
    LET shape == IF resp.kind = "object" THEN resp.violations.type ELSE resp.kind
    IN IF resp.kind = "error" \/ ResponseRejected(resp) \/ resp.kind = "null"
       THEN [state |-> "null", shape |-> shape, comments |-> Undefined]
       ELSE [state |-> "ok", shape |-> shape, comments |-> resp.violations]

\* reviewResult.comments && reviewResult.comments.length > 0
HasComments(v) == v.type \in {"array", "string"} /\ Len(v.items) > 0

\* The identifier of a violation of a unit
ViolationIdentifier(u, c) ==
    LET code == prepareCodeForReview(Diffs[u]).codeWithLines
        ctx == getCodeContext(code, c.lineNumber, 3)
    IN generateIdentifier(RuleId, Diffs[u].new_path,
                          generateContextHash(RuleId, Diffs[u].new_path, c.lineNumber, ctx))

(***************************************************************************)
(* The fingerprint cache document and the run                               *)
(***************************************************************************)
\* EMPTY_CACHE()
EmptyCache == [lastUpdated |-> 0, fingerprints |-> {}]

NoCacheDoc == [exists |-> FALSE, shape |-> "valid", lastUpdated |-> 0, fingerprints |-> <<>>]

\* The types of the fields of a stored cache document: those the service
\* writes, a fingerprints field that is not an array, a lastUpdated field that
\* is missing or not a number, and a lastUpdated that is the number NaN
CacheShapes == {"valid", "fingerprintsNotArray", "lastUpdatedNotNumber", "lastUpdatedNaN"}

\* new Set(array)
ArrayToSet(arr) == {arr[i] : i \in 1..Len(arr)}

\* Array.from(set), in the order of the units
RECURSIVE SetToArrayFrom(_, _)
SetToArrayFrom(S, u) ==
    IF u > Len(Diffs) THEN <<>>
    ELSE (IF Fingerprint(u) \in S THEN <<Fingerprint(u)>> ELSE <<>>) \o SetToArrayFrom(S, u + 1)

SetToArray(S) == SetToArrayFrom(S, 1)

\* The format check that accepts every document
AnyFormat(doc) == TRUE

\* data && typeof data.lastUpdated === 'number' && Array.isArray(data.fingerprints)
ValidFormat(doc) == doc.shape \notin {"lastUpdatedNotNumber", "fingerprintsNotArray"}

\* getMergeRequestReviewCache: the stored object with its array as a Set; the
\* empty cache when the read fails, when the document is absent, when its
\* format is invalid, and when logging its date throws (caught with the read
\* failures)
getMergeRequestReviewCache(doc, readOk) ==
    IF ~readOk THEN EmptyCache
    ELSE IF ~doc.exists THEN EmptyCache
    ELSE IF ~ValidFormat(doc) THEN EmptyCache
    ELSE IF doc.shape = "lastUpdatedNaN" THEN EmptyCache
    ELSE [lastUpdated |-> doc.lastUpdated, fingerprints |-> ArrayToSet(doc.fingerprints)]

\* A write that stores the lastUpdated of the object it is given
keepMergeRequestReviewCache(doc, cacheObject, nowMillis, writeOk) ==
    IF writeOk
    THEN [exists |-> TRUE, shape |-> "valid", lastUpdated |-> cacheObject.lastUpdated,
          fingerprints |-> SetToArray(cacheObject.fingerprints)]
    ELSE doc

\* updateMergeRequestReviewCache: the document overwritten, lastUpdated = now;
\* a failed write is logged and leaves the document as it was
updateMergeRequestReviewCache(doc, cacheObject, nowMillis, writeOk) ==
    IF writeOk
    THEN [exists |-> TRUE, shape |-> "valid", lastUpdated |-> nowMillis,
          fingerprints |-> SetToArray(cacheObject.fingerprints)]
    ELSE doc

IdleRun ==
    [pc |-> "idle", runNo |-> 0, refs |-> TRUE, loaded |-> EmptyCache, working |-> EmptyCache,
     cacheNeedsUpdate |-> FALSE, existing |-> {}, results |-> [u \in UnitIds |-> NoResult],
     llmCalls |-> {}, ri |-> 1, ci |-> 1, dupSkipped |-> FALSE, failed |-> FALSE]

ReviewInit ==
    /\ mrCache = NoCacheDoc
    /\ notes = <<>>
    /\ rv = IdleRun

\* A result handling that stops at the first review that failed
NextResultUnlessFailed(results, u) ==
    IF \E k \in UnitIds : results[k].state = "null" THEN Len(Diffs) + 1
    ELSE CHOOSE i \in {k \in u..Len(Diffs) : results[k].state = "ok"} \cup {Len(Diffs) + 1} :
            \A k \in u..Len(Diffs) : results[k].state = "ok" => i <= k

\* The next review result at or after unit u; Len(Diffs) + 1 when there is none
NextResult(results, u) ==
    MinOf({k \in u..Len(Diffs) : results[k].state = "ok"} \cup {Len(Diffs) + 1})

\* reviewMergeRequest up to the start of the LLM reviews: cache loaded and
\* cloned, identifiers of the bot's notes collected, units checked against the
\* cache; the run returns at once when no unit is left to review
ReviewStart ==
    /\ rv.pc = "idle"
    /\ rv.runNo < MaxRuns
    /\ \E refs \in BOOLEAN, readOk \in BOOLEAN :
        LET loaded == getMergeRequestReviewCache(mrCache, readOk)
            todo == {u \in UnitIds : ~IsCached(loaded.fingerprints, Fingerprint(u))}
        IN rv' = [pc |-> IF todo = {} THEN "idle" ELSE "llm",
                  runNo |-> rv.runNo + 1,
                  refs |-> refs,
                  loaded |-> loaded,
                  working |-> loaded,
                  cacheNeedsUpdate |-> FALSE,
                  existing |-> ExistingViolationIdentifiers(notes),
                  results |-> [u \in UnitIds |-> IF u \in todo THEN PendingResult ELSE NoResult],
                  llmCalls |-> {},
                  ri |-> 1, ci |-> 1, dupSkipped |-> FALSE, failed |-> FALSE]
    /\ UNCHANGED <<mrCache, notes, llmVars, agentVars, hilVars, packVars, ctxVars, fnVars, svcVars>>

\* A wait that ends with the first review to complete
AnySettled(results) == \E k \in UnitIds : results[k].state \notin {"none", "pending"}

\* await allSettledAndFulFilled(codeReviewActions): every review has completed
AllSettled(results) == \A k \in UnitIds : results[k].state # "pending"

\* One of the parallel LLM reviews completes; the last one to complete starts
\* the serial result handling
ReviewDiff ==
    /\ rv.pc = "llm"
    /\ \E u \in UnitIds, resp \in Responses :
        /\ rv.results[u].state = "pending"
        /\ LET results == [rv.results EXCEPT ![u] = reviewDiff(resp)]
               allDone == AllSettled(results)
           IN rv' = [rv EXCEPT !.results = results,
                               !.llmCalls = @ \cup {u},
                               !.pc = IF allDone THEN "handle" ELSE "llm",
                               !.ri = IF allDone THEN NextResult(results, 1) ELSE 1]
    /\ UNCHANGED <<mrCache, notes, llmVars, agentVars, hilVars, packVars, ctxVars, fnVars, svcVars>>

\* The position after comment ci of result ri
Advance(run) ==
    IF run.ci < Len(run.results[run.ri].comments.items)
    THEN [run EXCEPT !.ci = @ + 1]
    ELSE [run EXCEPT !.ri = NextResult(run.results, run.ri + 1), !.ci = 1]

\* Result handling of one violation comment: skipped when its identifier is
\* known or when the merge request has no diff refs, posted otherwise; the
\* identifier is remembered after a successful post
HandleComment ==
    /\ rv.pc = "handle"
    /\ rv.ri <= Len(Diffs)
    /\ HasComments(rv.results[rv.ri].comments)
    /\ LET c == rv.results[rv.ri].comments.items[rv.ci]
           violationIdentifier == ViolationIdentifier(rv.ri, c)
       IN IF AlreadyCommented(rv.existing, violationIdentifier)
          THEN /\ rv' = Advance([rv EXCEPT !.dupSkipped = TRUE])
               /\ UNCHANGED notes
          ELSE IF ~rv.refs
          THEN /\ rv' = Advance(rv)
               /\ UNCHANGED notes
          ELSE \E created \in BOOLEAN :
                IF created
                THEN /\ notes' = Append(notes, [author |-> BOT_USER_ID,
                                                body |-> CommentBody(violationIdentifier, c.comment)])
                     /\ rv' = Advance([rv EXCEPT !.existing = @ \cup {violationIdentifier}])
                ELSE /\ rv' = Advance([rv EXCEPT !.failed = TRUE])
                     /\ UNCHANGED notes
    /\ UNCHANGED <<mrCache, llmVars, agentVars, hilVars, packVars, ctxVars, fnVars, svcVars>>

\* Result handling of a review without comments: the unit is marked clean in
\* the working cache
HandleClean ==
    /\ rv.pc = "handle"
    /\ rv.ri <= Len(Diffs)
    /\ ~HasComments(rv.results[rv.ri].comments)
    /\ rv' = [rv EXCEPT !.working.fingerprints = @ \cup {Fingerprint(rv.ri)},
                        !.cacheNeedsUpdate = TRUE,
                        !.ri = NextResult(rv.results, rv.ri + 1),
                        !.ci = 1]
    /\ UNCHANGED <<mrCache, notes, llmVars, agentVars, hilVars, packVars, ctxVars, fnVars, svcVars>>

\* The end of the run: the working cache is written when it changed
PersistCache ==
    /\ rv.pc = "handle"
    /\ rv.ri > Len(Diffs)
    /\ \E writeOk \in BOOLEAN :
        /\ mrCache' = IF rv.cacheNeedsUpdate
                      THEN updateMergeRequestReviewCache(mrCache, rv.working, rv.runNo, writeOk)
                      ELSE mrCache
        /\ rv' = [rv EXCEPT !.pc = "idle",
                            !.failed = @ \/ (rv.cacheNeedsUpdate /\ ~writeOk)]
    /\ UNCHANGED <<notes, llmVars, agentVars, hilVars, packVars, ctxVars, fnVars, svcVars>>

\* Another user quotes the hidden tag of a violation in a note of their own
HumanNote ==
    /\ rv.pc = "idle"
    /\ \A i \in 1..Len(notes) : notes[i].author # OtherUserId
    /\ notes' = Append(notes, [author |-> OtherUserId,
                               body |-> CommentBody(ViolationIdentifier(1, Comment1), "quoted")])
    /\ UNCHANGED <<mrCache, rv, llmVars, agentVars, hilVars, packVars, ctxVars, fnVars, svcVars>>

ReviewNext ==
    \/ ReviewStart
    \/ ReviewDiff
    \/ HandleComment
    \/ HandleClean
    \/ PersistCache
    \/ HumanNote

(***************************************************************************)
(* Human-in-the-loop gates of the runner: checkHumanInTheLoop               *)
(***************************************************************************)

\* The agent whose control loop is modelled
HilAgent == 1

\* agent.hilCount and agent.hilBudget
HilCount == 2

HilBudget == 2

\* The total cost the agent can run up
MaxCost == 4

\* The context object of the running agent as save serializes it
HilContext(state) ==
    [exists |-> TRUE, user |-> CurrentUser, state |-> state, parent |-> NoParent,
     childAgents |-> {}]

HilInit ==
    hil = [pc |-> "new", state |-> "agent", iteration |-> 0, costAccumulated |-> 0,
           lastCost |-> 0, cost |-> 0]

\* The cost tracking at the end of checkHumanInTheLoop, up to the wait for the
\* human when the budget is exceeded
CostGate(h) ==
    LET newCosts == h.cost - h.lastCost
        costAccumulated == h.costAccumulated + newCosts
    IN [h EXCEPT !.lastCost = h.cost,
                 !.costAccumulated = costAccumulated,
                 !.pc = IF HilBudget # 0 /\ costAccumulated > HilBudget
                        THEN "hilBudget" ELSE "loop"]

\* The runner checkpoints the new agent
StartAgent ==
    /\ hil.pc = "new"
    /\ agents' = SavedAgents(agents, HilAgent, HilContext(hil.state))
    /\ agLast' = [op |-> "save", ok |-> TRUE, id |-> NoParent]
    /\ hil' = [hil EXCEPT !.pc = "loop"]
    /\ UNCHANGED <<ufLoaded, llmVars, reviewVars, packVars, ctxVars, fnVars, svcVars>>

\* An LLM call of the control loop adds to the cost of the agent
SpendCost ==
    /\ hil.pc = "loop"
    /\ hil.state = "agent"
    /\ hil.cost < MaxCost
    /\ hil' = [hil EXCEPT !.cost = @ + 1]
    /\ UNCHANGED <<agentVars, llmVars, reviewVars, packVars, ctxVars, fnVars, svcVars>>

\* checkHumanInTheLoop from its call to its first wait for the human, or to its
\* return when no gate is reached
CheckHumanInTheLoop ==
    /\ hil.pc = "loop"
    /\ hil.state = "agent"
    /\ LET iteration == hil.iteration + 1
       IN IF HilCount # 0 /\ iteration >= HilCount
          THEN /\ hil' = [hil EXCEPT !.iteration = iteration, !.state = "hil", !.pc = "hilCount"]
               /\ agents' = SavedAgents(agents, HilAgent, HilContext("hil"))
               /\ agLast' = [op |-> "save", ok |-> TRUE, id |-> NoParent]
          ELSE /\ hil' = CostGate([hil EXCEPT !.iteration = iteration])
               /\ UNCHANGED <<agents, agLast>>
    /\ UNCHANGED <<ufLoaded, llmVars, reviewVars, packVars, ctxVars, fnVars, svcVars>>

\* The human acknowledges the iteration gate: the state is set back to agent
\* and saved, the iteration counter reset, then the cost is tracked
HilCountAck ==
    /\ hil.pc = "hilCount"
    /\ agents' = SavedAgents(agents, HilAgent, HilContext("agent"))
    /\ agLast' = [op |-> "save", ok |-> TRUE, id |-> NoParent]
    /\ hil' = CostGate([hil EXCEPT !.state = "agent", !.iteration = 0])
    /\ UNCHANGED <<ufLoaded, llmVars, reviewVars, packVars, ctxVars, fnVars, svcVars>>

\* The human acknowledges the budget gate: the accumulator is cleared
HilBudgetAck ==
    /\ hil.pc = "hilBudget"
    /\ hil' = [hil EXCEPT !.costAccumulated = 0, !.pc = "loop"]
    /\ UNCHANGED <<agentVars, llmVars, reviewVars, packVars, ctxVars, fnVars, svcVars>>

\* An explicit stop or the wall-clock timeout of the agent: updateState on the
\* context object of the running agent, which sets the stored state and then
\* the state of the object
ExternalStop ==
    /\ agents[HilAgent].exists
    /\ isExecuting(agents[HilAgent].state)
    /\ \E st \in {"shutdown", "timeout"} :
        /\ agents' = UpdatedState(agents, HilAgent, st)
        /\ hil' = [hil EXCEPT !.state = st]
    /\ agLast' = [op |-> "updateState", ok |-> TRUE, id |-> NoParent]
    /\ UNCHANGED <<ufLoaded, llmVars, reviewVars, packVars, ctxVars, fnVars, svcVars>>

HilNext ==
    \/ StartAgent
    \/ SpendCost
    \/ CheckHumanInTheLoop
    \/ HilCountAck
    \/ HilBudgetAck
    \/ ExternalStop


(***************************************************************************)
(* Agent contexts in memory and in the store: save, updateState,            *)
(* updateFunctions and listRunning                                          *)
(***************************************************************************)

\* The agents of the runner; they have no parent
CtxIds == {1, 2}

\* Largest value of Date.now()
MaxClock == 2

\* Largest cost an agent accumulates
MaxSpend == 2

\* The states updateState is called with on a running agent
RunnerStates == {"agent", "completed"}

\* The states of the agents that are listed, in the order of their strings
StateOrder == <<"agent", "completed", "error", "hil", "hitl_threshold", "shutdown", "timeout">>

ListStates == { StateOrder[i] : i \in 1..Len(StateOrder) }

StateRank(st) == CHOOSE i \in 1..Len(StateOrder) : StateOrder[i] = st

\* The AgentContext object of a new agent
NewContext == [state |-> "agent", cost |-> 0, functions |-> "f0", lastUpdate |-> 0]

NoCtxDoc == [exists |-> FALSE, state |-> "agent", cost |-> 0, functions |-> "f0",
             lastUpdate |-> 0]

NoCtxLoad == [active |-> FALSE, id |-> 1, ctx |-> NewContext]

NotListed == [done |-> FALSE, result |-> <<>>]

NoCtxCall == [op |-> "none", id |-> 1, ok |-> TRUE, differed |-> FALSE]

\* A serialization that writes the state of a new agent whatever the context holds
SerializedAsNew(ctx, now) ==
    [exists |-> TRUE, state |-> "agent", cost |-> ctx.cost, functions |-> ctx.functions,
     lastUpdate |-> now]

\* serializeContext(state) with serialized.lastUpdate = Date.now()
SerializedContext(ctx, now) ==
    [exists |-> TRUE, state |-> ctx.state, cost |-> ctx.cost, functions |-> ctx.functions,
     lastUpdate |-> now]

\* deserializeAgentContext of a stored document
DeserializedContext(doc) ==
    [state |-> doc.state, cost |-> doc.cost, functions |-> doc.functions,
     lastUpdate |-> doc.lastUpdate]

\* Whether the in-memory context differs from the stored record in a field
\* other than state and lastUpdate
CtxDiffers(ctx, doc) == ctx.cost # doc.cost \/ ctx.functions # doc.functions

\* A write of the two fields that replaces the document
OverwrittenStateDoc(doc, st, now) ==
    [NoCtxDoc EXCEPT !.exists = TRUE, !.state = st, !.lastUpdate = now]

\* docRef.update({ state, lastUpdate: now }) on a stored document
UpdatedStateDoc(doc, st, now) == [doc EXCEPT !.state = st, !.lastUpdate = now]

\* A context object that is assigned before the write is awaited
ContextAssignedFirst(ctx, st, now, ok) == [ctx EXCEPT !.state = st, !.lastUpdate = now]

\* The context object after updateState: assigned after the awaited update,
\* untouched when the update threw
ContextAfterUpdate(ctx, st, now, ok) ==
    IF ok THEN [ctx EXCEPT !.state = st, !.lastUpdate = now] ELSE ctx

\* Date.now() advances
CtxTick ==
    /\ clock < MaxClock
    /\ clock' = clock + 1
    /\ UNCHANGED <<ctxDocs, ctxMem, ctxLoaded, ctxLast, listed>>
    /\ UNCHANGED <<llmVars, agentVars, reviewVars, hilVars, packVars, fnVars, svcVars>>

\* The runner adds the cost of a call to the context it holds
CtxSpend(ids) ==
    \E a \in ids :
        /\ ctxMem[a].cost < MaxSpend
        /\ ctxMem' = [ctxMem EXCEPT ![a].cost = @ + 1]
        /\ listed' = NotListed
        /\ UNCHANGED <<ctxDocs, ctxLoaded, clock, ctxLast>>
        /\ UNCHANGED <<llmVars, agentVars, reviewVars, hilVars, packVars, fnVars, svcVars>>

\* The runner assigns the state of the context it holds (agent.state = ...)
CtxSetState(ids, states) ==
    \E a \in ids, st \in states :
        /\ ctxMem' = [ctxMem EXCEPT ![a].state = st]
        /\ listed' = NotListed
        /\ UNCHANGED <<ctxDocs, ctxLoaded, clock, ctxLast>>
        /\ UNCHANGED <<llmVars, agentVars, reviewVars, hilVars, packVars, fnVars, svcVars>>

\* save(state) of an agent without a parent: docRef.set(serialized)
CtxSave(ids) ==
    \E a \in ids :
        /\ ctxDocs' = [ctxDocs EXCEPT ![a] = SerializedContext(ctxMem[a], clock)]
        /\ ctxLast' = [op |-> "save", id |-> a, ok |-> TRUE, differed |-> FALSE]
        /\ listed' = NotListed
        /\ UNCHANGED <<ctxMem, ctxLoaded, clock>>
        /\ UNCHANGED <<llmVars, agentVars, reviewVars, hilVars, packVars, fnVars, svcVars>>

\* updateState(ctx, state): the update fails without a document, or when the
\* store rejects the write (writeOk = FALSE); the error is rethrown
CtxUpdateState(ids, states) ==
    \E a \in ids, st \in states, writeOk \in BOOLEAN :
        LET ok == ctxDocs[a].exists /\ writeOk
        IN /\ ctxDocs' = IF ok
                         THEN [ctxDocs EXCEPT ![a] = UpdatedStateDoc(@, st, clock)]
                         ELSE ctxDocs
           /\ ctxMem' = [ctxMem EXCEPT ![a] = ContextAfterUpdate(@, st, clock, ok)]
           /\ ctxLast' = [op |-> "updateState", id |-> a, ok |-> ok,
                          differed |-> CtxDiffers(ctxMem[a], ctxDocs[a])]
           /\ listed' = NotListed
           /\ UNCHANGED <<ctxLoaded, clock>>
           /\ UNCHANGED <<llmVars, agentVars, reviewVars, hilVars, packVars, fnVars, svcVars>>

\* updateFunctions(agentId, functions), first half: load(agentId), which
\* throws 'Agent not found' without a document
CtxUpdateFunctionsLoad(ids) ==
    \E a \in ids :
        /\ ~ctxLoaded.active
        /\ IF ctxDocs[a].exists
           THEN /\ ctxLoaded' = [active |-> TRUE, id |-> a,
                                 ctx |-> DeserializedContext(ctxDocs[a])]
                /\ UNCHANGED ctxLast
           ELSE /\ UNCHANGED ctxLoaded
                /\ ctxLast' = [op |-> "updateFunctions", id |-> a, ok |-> FALSE,
                               differed |-> FALSE]
        /\ listed' = NotListed
        /\ UNCHANGED <<ctxDocs, ctxMem, clock>>
        /\ UNCHANGED <<llmVars, agentVars, reviewVars, hilVars, packVars, fnVars, svcVars>>

\* updateFunctions(agentId, functions), second half: the functions of the
\* loaded context are replaced and the context is saved
CtxUpdateFunctionsSave ==
    /\ ctxLoaded.active
    /\ ctxDocs' = [ctxDocs EXCEPT ![ctxLoaded.id] =
            SerializedContext([ctxLoaded.ctx EXCEPT !.functions = "f1"], clock)]
    /\ ctxLoaded' = NoCtxLoad
    /\ ctxLast' = [op |-> "updateFunctions", id |-> ctxLoaded.id, ok |-> TRUE,
                   differed |-> FALSE]
    /\ listed' = NotListed
    /\ UNCHANGED <<ctxMem, clock>>
    /\ UNCHANGED <<llmVars, agentVars, reviewVars, hilVars, packVars, fnVars, svcVars>>

\* The documents the query of listRunning matches: where('state', 'not-in', terminalStates)
RunningIds(docs) ==
    { a \in CtxIds : docs[a].exists /\ docs[a].state \notin TerminalStates }

\* orderBy('state').orderBy('lastUpdate', 'desc'); documents that tie are
\* ordered by their id in the direction of the last orderBy
QueryBefore(docs, a, b) ==
    \/ StateRank(docs[a].state) < StateRank(docs[b].state)
    \/ /\ docs[a].state = docs[b].state
       /\ \/ docs[a].lastUpdate > docs[b].lastUpdate
          \/ docs[a].lastUpdate = docs[b].lastUpdate /\ a > b

RECURSIVE QueryOrder(_, _)
QueryOrder(docs, S) ==
    IF S = {} THEN <<>>
    ELSE LET first == CHOOSE a \in S : \A b \in S \ {a} : QueryBefore(docs, a, b)
         IN <<first>> \o QueryOrder(docs, S \ {first})

\* deserializeQuery: the partial context of each document of the snapshot
PartialContext(docs, a) ==
    [agentId |-> a, state |-> docs[a].state, cost |-> docs[a].cost,
     lastUpdate |-> docs[a].lastUpdate]

\* listRunning()
listRunning(docs) ==
    LET order == QueryOrder(docs, RunningIds(docs))
    IN [i \in 1..Len(order) |-> PartialContext(docs, order[i])]

ListRunning ==
    /\ listed' = [done |-> TRUE, result |-> listRunning(ctxDocs)]
    /\ UNCHANGED <<ctxDocs, ctxMem, ctxLoaded, clock, ctxLast>>
    /\ UNCHANGED <<llmVars, agentVars, reviewVars, hilVars, packVars, fnVars, svcVars>>

CtxInit ==
    /\ ctxDocs = [a \in CtxIds |-> NoCtxDoc]
    /\ ctxMem = [a \in CtxIds |-> NewContext]
    /\ ctxLoaded = NoCtxLoad
    /\ clock = 1
    /\ ctxLast = NoCtxCall
    /\ listed = NotListed

\* One agent of the runner, and updateFunctions calls on it
CtxNext ==
    \/ CtxTick
    \/ CtxSave({1})
    \/ CtxUpdateState({1}, RunnerStates)
    \/ CtxUpdateFunctionsLoad({1})
    \/ CtxUpdateFunctionsSave

\* The same agent while its cost grows
CostNext ==
    \/ CtxTick
    \/ CtxSpend({1})
    \/ CtxSave({1})
    \/ CtxUpdateState({1}, RunnerStates)
    \/ CtxUpdateFunctionsLoad({1})
    \/ CtxUpdateFunctionsSave

\* Agents saved in every state, and listed
ListNext ==
    \/ CtxTick
    \/ CtxSetState(CtxIds, ListStates)
    \/ CtxSave(CtxIds)
    \/ ListRunning

(***************************************************************************)
(* The composite LLM with fallbacks: FastMediumLLM.generateTextFromMessages *)
(***************************************************************************)
\* The providers of the composite LLM
NumProviders == 3

\* A provider as the walk sees it: isConfigured(), getMaxInputTokens() and
\* whether its generateText call throws
ProviderKinds ==
    [configured : BOOLEAN, maxInputTokens : {1000, 3000}, fails : BOOLEAN]

\* countTokens of the joined message contents
TokenCounts == {1000, 2000}

NotGenerated == [status |-> "none", by |-> 0, invoked |-> <<>>]

\* The token check that also skips a provider whose limit equals the count
ReachesInput(llm, promptTokens) == promptTokens >= llm.maxInputTokens

\* promptTokens > llm.getMaxInputTokens()
ExceedsInput(llm, promptTokens) == promptTokens > llm.maxInputTokens

\* The loop over the providers from position i on; invoked lists the providers
\* whose generateText was called
RECURSIVE GenerateFrom(_, _, _, _)
GenerateFrom(providers, i, promptTokens, invoked) ==
    IF i > Len(providers)
    THEN [status |-> "All providers failed.", by |-> 0, invoked |-> invoked]
    ELSE LET llm == providers[i]
         IN IF ~llm.configured
            THEN GenerateFrom(providers, i + 1, promptTokens, invoked)
            ELSE IF ExceedsInput(llm, promptTokens)
            THEN GenerateFrom(providers, i + 1, promptTokens, invoked)
            ELSE IF llm.fails
            THEN GenerateFrom(providers, i + 1, promptTokens, Append(invoked, i))
            ELSE [status |-> "ok", by |-> i, invoked |-> Append(invoked, i)]

generateTextFromMessages(providers, promptTokens) ==
    GenerateFrom(providers, 1, promptTokens, <<>>)

FbIdle ==
    fb = [providers |-> [i \in 1..NumProviders |->
                            [configured |-> TRUE, maxInputTokens |-> 3000, fails |-> FALSE]],
          tokens |-> 1000, out |-> NotGenerated]

\* One call of the composite LLM
Generate ==
    /\ fb.out = NotGenerated
    /\ fb' = [fb EXCEPT !.out = generateTextFromMessages(fb.providers, fb.tokens)]
    /\ UNCHANGED <<llmVars, agentVars, reviewVars, hilVars, packVars, ctxVars, uc, cacheGot, fp, svcVars>>

(***************************************************************************)
(* The user of the running task: runWithUser, isSingleUser, currentUser     *)
(***************************************************************************)
\* Nested runWithUser calls of one task
MaxNesting == 2

\* process.env.AUTH: not set, empty, or one of the configured modes
AuthModes == {"unset", "", "single_user", "google_iap"}

NoUser == "none"

\* userService.getSingleUser()
SingleUser == "single"

NotAsked == [status |-> "none", user |-> NoUser]

\* The mode test that takes every deployment for a single-user one
AlwaysSingleUser(auth) == TRUE

\* !process.env.AUTH || process.env.AUTH === 'single_user'
isSingleUser(auth) == auth \in {"unset", ""} \/ auth = "single_user"

\* currentUser() in a task whose agentContext() has user agentUser (NoUser
\* without an agent) and whose userContextStorage holds the users of the
\* enclosing runWithUser calls, the innermost last
currentUser(agentUser, store, auth) ==
    IF agentUser # NoUser THEN [status |-> "ok", user |-> agentUser]
    ELSE IF store # <<>> THEN [status |-> "ok", user |-> store[Len(store)]]
    ELSE IF isSingleUser(auth) THEN [status |-> "ok", user |-> SingleUser]
    ELSE [status |-> "User has not been set on the userContextStorage", user |-> NoUser]

UcIdle == uc = [auth |-> "unset", agent |-> NoUser, store |-> <<>>, out |-> NotAsked]

\* runWithUser(user, fn): fn starts with user bound
RunWithUser ==
    /\ Len(uc.store) < MaxNesting
    /\ \E user \in Users : uc' = [uc EXCEPT !.store = Append(@, user), !.out = NotAsked]
    /\ UNCHANGED <<llmVars, agentVars, reviewVars, hilVars, packVars, ctxVars, fb, cacheGot, fp, svcVars>>

\* The function given to the innermost runWithUser returns
RunReturns ==
    /\ uc.store # <<>>
    /\ uc' = [uc EXCEPT !.store = SubSeq(@, 1, Len(@) - 1), !.out = NotAsked]
    /\ UNCHANGED <<llmVars, agentVars, reviewVars, hilVars, packVars, ctxVars, fb, cacheGot, fp, svcVars>>

\* The task calls currentUser()
CallCurrentUser ==
    /\ uc.out = NotAsked
    /\ uc' = [uc EXCEPT !.out = currentUser(uc.agent, uc.store, uc.auth)]
    /\ UNCHANGED <<llmVars, agentVars, reviewVars, hilVars, packVars, ctxVars, fb, cacheGot, fp, svcVars>>

(***************************************************************************)
(* The fingerprint cache document read and written on its own               *)
(***************************************************************************)
NoCacheCall ==
    [op |-> "none", ok |-> TRUE, at |-> 0, doc |-> NoCacheDoc, arg |-> EmptyCache,
     cache |-> EmptyCache]

CacheIdle == cacheGot = NoCacheCall

\* The cache objects a caller can pass to updateMergeRequestReviewCache
CacheObjects == [lastUpdated : 0..MaxClock, fingerprints : SUBSET AllFingerprints]

\* Another writer sets the document; its fields need not have the types the
\* service expects
ForeignWrite ==
    /\ \E shape \in CacheShapes, fingerprints \in SUBSET AllFingerprints :
        mrCache' = [exists |-> TRUE, shape |-> shape, lastUpdated |-> clock,
                    fingerprints |-> SetToArray(fingerprints)]
    /\ cacheGot' = NoCacheCall
    /\ UNCHANGED <<notes, rv, llmVars, agentVars, hilVars, packVars, ctxVars, fb, uc, fp, svcVars>>

\* One call of getMergeRequestReviewCache
CacheGet ==
    /\ \E readOk \in BOOLEAN :
        cacheGot' = [op |-> "get", ok |-> readOk, at |-> clock, doc |-> mrCache,
                     arg |-> EmptyCache,
                     cache |-> getMergeRequestReviewCache(mrCache, readOk)]
    /\ UNCHANGED <<mrCache, notes, rv, llmVars, agentVars, hilVars, packVars, ctxVars, fb, uc, fp, svcVars>>

\* One call of updateMergeRequestReviewCache; Date.now() is the clock
CacheUpdate ==
    /\ \E cacheObject \in CacheObjects, writeOk \in BOOLEAN :
        /\ mrCache' = updateMergeRequestReviewCache(mrCache, cacheObject, clock, writeOk)
        /\ cacheGot' = [op |-> "update", ok |-> writeOk, at |-> clock, doc |-> mrCache,
                        arg |-> cacheObject, cache |-> EmptyCache]
    /\ UNCHANGED <<notes, rv, llmVars, agentVars, hilVars, packVars, ctxVars, fb, uc, fp, svcVars>>

(***************************************************************************)
(* Fingerprints of two diffs of one file                                    *)
(***************************************************************************)
\* Diffs of a.ts as GitLab returns them for two pushes.  A line is its first
\* character and the rest of it (what line.slice(1) gives); the header of the
\* first hunk is parsed into start, a later hunk header "@@ -a,b +c,d @@" is a
\* line of its own.
FpDiffs ==
    { [new_path |-> "a.ts", ext |-> "ts", start |-> start, lines |-> first \o later] :
        start \in {1, 3},
        first \in { << <<"+", "x">> >>, << <<"+", "x">>, <<"-", "old">> >>, << <<"+", "w">> >> },
        later \in { <<>>,
                    << <<"@", "@ -5,1 +7,1 @@">>, <<" ", "y">> >>,
                    << <<"@", "@ -9,1 +11,1 @@">>, <<" ", "y">> >> } }

NotComputed == <<"none">>

FpIdle ==
    fp = [a |-> Diffs[1], b |-> Diffs[1], done |-> FALSE, fa |-> NotComputed, fb |-> NotComputed]

\* The fingerprint of the unit is computed for each of the two diffs
ComputeFingerprints ==
    /\ ~fp.done
    /\ fp' = [fp EXCEPT !.done = TRUE, !.fa = FingerprintOf(fp.a), !.fb = FingerprintOf(fp.b)]
    /\ UNCHANGED <<llmVars, agentVars, reviewVars, hilVars, packVars, ctxVars, fb, uc, cacheGot, svcVars>>

(***************************************************************************)
(* The working directory of the file system service and GitLab.cloneProject *)
(***************************************************************************)
\* Directories as lists of path segments: the base path of the service, the
\* shared clone of the project, and directories inside the clone
BaseDir == <<"base">>

CloneDir == <<"repo">>

GitDir == <<"repo", ".git">>

TreeDirs == {<<"repo", "sub">>, <<"repo", "t">>, <<"repo", "repo", "sub">>}

\* The steps of the update of an existing clone that can throw
UpdateSteps == {"getProjectInfo", "switch", "fetch", "pull"}

NoFsCall == [op |-> "none", before |-> BaseDir, ok |-> TRUE]

FsIdle == fs = [cwd |-> BaseDir, exists |-> {BaseDir}, last |-> NoFsCall]

\* setWorkingDirectory(dir) for an absolute dir: dir when it exists, else dir
\* taken relative to the working directory when that exists, else an error
\* with the working directory as it was
setWorkingDirectory(cwd, exists, dir) ==
    IF dir \in exists THEN [cwd |-> dir, ok |-> TRUE]
    ELSE IF (cwd \o dir) \in exists THEN [cwd |-> cwd \o dir, ok |-> TRUE]
    ELSE [cwd |-> cwd, ok |-> FALSE]

\* FileSystem_setWorkingDirectory called by the agent
SetWorkingDirectory ==
    /\ \E dir \in {BaseDir, CloneDir} \cup TreeDirs :
        LET r == setWorkingDirectory(fs.cwd, fs.exists, dir)
        IN fs' = [fs EXCEPT !.cwd = r.cwd,
                            !.last = [op |-> "setWorkingDirectory", before |-> fs.cwd, ok |-> r.ok]]
    /\ UNCHANGED <<llmVars, agentVars, reviewVars, hilVars, packVars, ctxVars, fnVars, gen, tk, mrDocs, runs>>

\* cloneProject of the project cloned at CloneDir.  An existing clone is
\* updated inside try/finally: the working directory is saved and set to the
\* clone, the branch is switched and the updates are fetched and pulled, which
\* leaves the directories of the tree that the new branch has; finally the
\* saved directory is set again.  Without a clone the project is cloned and
\* the working directory is not touched.
CloneProject ==
    /\ \E failAt \in UpdateSteps \cup {"none"}, tree \in SUBSET TreeDirs :
        IF CloneDir \in fs.exists /\ GitDir \in fs.exists
        THEN LET entered == setWorkingDirectory(fs.cwd, fs.exists, CloneDir)
                 exists == IF failAt = "getProjectInfo" THEN fs.exists
                           ELSE {BaseDir, CloneDir, GitDir} \cup tree
                 restored == setWorkingDirectory(entered.cwd, exists, fs.cwd)
             IN fs' = [cwd |-> restored.cwd, exists |-> exists,
                       last |-> [op |-> "update", before |-> fs.cwd,
                                 ok |-> failAt = "none" /\ restored.ok]]
        ELSE fs' = [fs EXCEPT !.exists = IF failAt = "none"
                                         THEN {BaseDir, CloneDir, GitDir} \cup tree
                                         ELSE @ \cup {CloneDir},
                              !.last = [op |-> "clone", before |-> fs.cwd,
                                        ok |-> failAt = "none"]]
    /\ UNCHANGED <<llmVars, agentVars, reviewVars, hilVars, packVars, ctxVars, fnVars, gen, tk, mrDocs, runs>>

(***************************************************************************)
(* generate of the LLM wrappers that record the call: AiLLM,                *)
(* AnthropicVertexLLM and PerplexityLLM                                     *)
(***************************************************************************)
Wrappers == {"AiLLM", "AnthropicVertexLLM", "PerplexityLLM"}

\* The request messages of a call
GenRequests ==
    { << [role |-> "user", content |-> "q"] >>,
      << [role |-> "system", content |-> "s"], [role |-> "user", content |-> "q"] >>,
      << [role |-> "user", content |-> "q"], [role |-> "assistant", content |-> "a0"],
         [role |-> "user", content |-> "q2"] >> }

\* The message built from the text of the provider's response
ResponseMessage == [role |-> "assistant", content |-> "answer"]

GenIdle ==
    gen = [llm |-> "AiLLM", messages |-> <<>>, pc |-> "idle", req |-> "none", prov |-> "none",
           resp |-> "none", saved |-> <<>>, out |-> "none"]

\* A wrapper that does not wait for the saveRequest promise
RequestIssued(g) == g.req # "none"

\* await llmCallSave: the saveRequest promise has settled
RequestSettled(g) == g.req \in {"saved", "rejected"}

\* llmCall.messages as passed to saveResponse; requestMessages are the
\* messages of the LlmCall that saveRequest returned
ResponseMessages(llm, requestMessages) ==
    IF llm = "PerplexityLLM"
    THEN Append(Append(requestMessages, ResponseMessage), ResponseMessage)
    ELSE Append(requestMessages, ResponseMessage)

\* generate up to the provider call: saveRequest is started and not awaited
GenStart ==
    /\ gen.pc = "idle"
    /\ \E llm \in Wrappers, messages \in GenRequests :
        gen' = [gen EXCEPT !.llm = llm, !.messages = messages, !.pc = "calling",
                           !.req = "pending", !.prov = "pending"]
    /\ UNCHANGED <<llmVars, agentVars, reviewVars, hilVars, packVars, ctxVars, fnVars, fs, tk, mrDocs, runs>>

\* The store completes or rejects the saveRequest
SaveRequestSettles ==
    /\ gen.req = "pending"
    /\ \E ok \in BOOLEAN : gen' = [gen EXCEPT !.req = IF ok THEN "saved" ELSE "rejected"]
    /\ UNCHANGED <<llmVars, agentVars, reviewVars, hilVars, packVars, ctxVars, fnVars, fs, tk, mrDocs, runs>>

\* The provider call returns a response or throws; a throw ends generate
ProviderResponds ==
    /\ gen.pc = "calling"
    /\ \E ok \in BOOLEAN :
        gen' = IF ok THEN [gen EXCEPT !.prov = "ok", !.pc = "awaitSave"]
               ELSE [gen EXCEPT !.prov = "failed", !.pc = "done", !.out = "error"]
    /\ UNCHANGED <<llmVars, agentVars, reviewVars, hilVars, packVars, ctxVars, fnVars, fs, tk, mrDocs, runs>>

\* const llmCall = await llmCallSave: a rejected saveRequest is thrown to the
\* caller of generate; otherwise the response is added to the messages and
\* saveResponse is called
AwaitRequestSave ==
    /\ gen.pc = "awaitSave"
    /\ RequestSettled(gen)
    /\ gen' = IF gen.req = "rejected"
              THEN [gen EXCEPT !.pc = "done", !.out = "error"]
              ELSE [gen EXCEPT !.pc = "savingResponse", !.resp = "pending",
                               !.saved = ResponseMessages(gen.llm, gen.messages)]
    /\ UNCHANGED <<llmVars, agentVars, reviewVars, hilVars, packVars, ctxVars, fnVars, fs, tk, mrDocs, runs>>

\* saveResponse completes or rejects; a rejection is logged and the message
\* is returned
SaveResponseSettles ==
    /\ gen.pc = "savingResponse"
    /\ \E ok \in BOOLEAN :
        gen' = [gen EXCEPT !.resp = IF ok THEN "saved" ELSE "rejected",
                           !.pc = "done", !.out = "message"]
    /\ UNCHANGED <<llmVars, agentVars, reviewVars, hilVars, packVars, ctxVars, fnVars, fs, tk, mrDocs, runs>>

(***************************************************************************)
(* The tokenizer of countTokens                                             *)
(***************************************************************************)
\* Callers of countTokens in the process
TkCallers == 1..3

\* The module variable before its first assignment
NoTokenizer == 0

IdleCall == [pc |-> "idle", mine |-> NoTokenizer, used |-> NoTokenizer]

TkIdle == tk = [tokenizer |-> NoTokenizer, created |-> 0, calls |-> [c \in TkCallers |-> IdleCall]]

\* countTokens(text) up to its await: with a tokenizer assigned, the text is
\* encoded with it at once; with none, createByModelName is called and the
\* call waits for the instance it creates
CountTokensStart ==
    /\ \E c \in TkCallers :
        /\ tk.calls[c].pc \in {"idle", "done"}
        /\ tk' = IF tk.tokenizer # NoTokenizer
                 THEN [tk EXCEPT !.calls[c] = [pc |-> "done", mine |-> NoTokenizer,
                                               used |-> tk.tokenizer]]
                 ELSE [tk EXCEPT !.created = @ + 1,
                                 !.calls[c] = [pc |-> "creating", mine |-> tk.created + 1,
                                               used |-> NoTokenizer]]
    /\ UNCHANGED <<llmVars, agentVars, reviewVars, hilVars, packVars, ctxVars, fnVars, fs, gen, mrDocs, runs>>

\* createByModelName resolves: the instance is assigned to the module
\* variable and the text is encoded with the variable's value
CountTokensResume ==
    /\ \E c \in TkCallers :
        /\ tk.calls[c].pc = "creating"
        /\ tk' = [tk EXCEPT !.tokenizer = tk.calls[c].mine,
                            !.calls[c] = [pc |-> "done", mine |-> tk.calls[c].mine,
                                          used |-> tk.calls[c].mine]]
    /\ UNCHANGED <<llmVars, agentVars, reviewVars, hilVars, packVars, ctxVars, fnVars, fs, gen, mrDocs, runs>>

(***************************************************************************)
(* The fingerprint cache documents of several merge requests                *)
(***************************************************************************)
\* Project ids as callers pass them: the path of a project as a string (a
\* list of characters here) or its numeric id
CacheProjectIds ==
    { [type |-> "string", chars |-> <<"a", "/", "b">>],
      [type |-> "string", chars |-> <<"a", "_", "b">>],
      [type |-> "number", chars |-> <<"7">>] }

CacheMrIids == {1, 2}

\* [a-zA-Z0-9_-]
SafeChars == {"a", "b", "7", "_", "-"}

\* getMRCacheDocId: proj_<safeProjectId>_mr_<mrIid>, where every character of
\* a string id outside [a-zA-Z0-9_-] is replaced by an underscore
getMRCacheDocId(projectId, mrIid) ==
    LET safeProjectId ==
            IF projectId.type = "string"
            THEN [i \in 1..Len(projectId.chars) |->
                    IF projectId.chars[i] \in SafeChars THEN projectId.chars[i] ELSE "_"]
            ELSE projectId.chars
    IN <<"proj_", safeProjectId, "_mr_", mrIid>>

CacheDocIds == {getMRCacheDocId(p, m) : p \in CacheProjectIds, m \in CacheMrIids}

MrDocsIdle ==
    mrDocs = [docs |-> [id \in CacheDocIds |-> NoCacheDoc],
              last |-> <<[type |-> "number", chars |-> <<"7">>], 1>>]

\* updateMergeRequestReviewCache(projectId, mrIid, cacheObject)
UpdateCacheOf ==
    /\ \E projectId \in CacheProjectIds, mrIid \in CacheMrIids,
          fingerprints \in SUBSET {Fingerprint(1)}, writeOk \in BOOLEAN :
        mrDocs' = [docs |-> [mrDocs.docs EXCEPT ![getMRCacheDocId(projectId, mrIid)] =
                                updateMergeRequestReviewCache(@,
                                    [lastUpdated |-> 0, fingerprints |-> fingerprints],
                                    clock, writeOk)],
                   last |-> <<projectId, mrIid>>]
    /\ UNCHANGED <<llmVars, agentVars, reviewVars, hilVars, packVars, ctxVars, fnVars, fs, gen, tk, runs>>

(***************************************************************************)
(* Two review runs of one merge request that overlap, reduced to what they  *)
(* do with the fingerprint cache                                            *)
(***************************************************************************)
RunIds == 1..2

IdleCacheRun ==
    [pc |-> "idle", readOk |-> TRUE, loaded |-> {}, working |-> {}, cacheNeedsUpdate |-> FALSE,
     wrote |-> {}]

RunsIdle == runs = [r \in RunIds |-> IdleCacheRun]

\* The run loads the cache and clones its fingerprints
RunLoad ==
    /\ \E r \in RunIds, readOk \in BOOLEAN :
        /\ runs[r].pc = "idle"
        /\ LET loaded == getMergeRequestReviewCache(mrCache, readOk).fingerprints
           IN runs' = [runs EXCEPT ![r] = [pc |-> "running", readOk |-> readOk,
                                           loaded |-> loaded,
                                           working |-> loaded, cacheNeedsUpdate |-> FALSE,
                                           wrote |-> {}]]
    /\ UNCHANGED <<reviewVars, llmVars, agentVars, hilVars, packVars, ctxVars, fnVars, fs, gen, tk, mrDocs>>

\* A unit the run had to review came back without comments
RunMarkClean ==
    /\ \E r \in RunIds, u \in UnitIds :
        /\ runs[r].pc = "running"
        /\ ~IsCached(runs[r].loaded, Fingerprint(u))
        /\ runs' = [runs EXCEPT ![r].working = @ \cup {Fingerprint(u)},
                                ![r].cacheNeedsUpdate = TRUE]
    /\ UNCHANGED <<reviewVars, llmVars, agentVars, hilVars, packVars, ctxVars, fnVars, fs, gen, tk, mrDocs>>

\* The end of the run: the working cache is written when it changed
RunPersist ==
    /\ \E r \in RunIds, writeOk \in BOOLEAN :
        /\ runs[r].pc = "running"
        /\ mrCache' = IF runs[r].cacheNeedsUpdate
                      THEN updateMergeRequestReviewCache(mrCache,
                                [lastUpdated |-> 0, fingerprints |-> runs[r].working],
                                clock, writeOk)
                      ELSE mrCache
        /\ runs' = [runs EXCEPT ![r].pc = "done",
                                ![r].wrote = IF runs[r].cacheNeedsUpdate /\ writeOk
                                             THEN runs[r].working ELSE {}]
    /\ UNCHANGED <<notes, rv, llmVars, agentVars, hilVars, packVars, ctxVars, fnVars, fs, gen, tk, mrDocs>>

SvcIdle == FsIdle /\ GenIdle /\ TkIdle /\ MrDocsIdle /\ RunsIdle

(***************************************************************************)
(* Specifications                                                           *)
(***************************************************************************)

vars == <<heads, chunks, llmLast, agents, ufLoaded, agLast, mrCache, notes, rv, hil,
          packIn, packOut, ctxDocs, ctxMem, ctxLoaded, clock, ctxLast, listed,
          fb, uc, cacheGot, fp, fs, gen, tk, mrDocs, runs>>

Init ==
    /\ LlmInit /\ AgentInit /\ ReviewInit /\ HilInit /\ PackIdle /\ CtxInit
    /\ FbIdle /\ UcIdle /\ CacheIdle /\ FpIdle
    /\ SvcIdle

\* The calls of one llmCallId
LlmNext ==
    \/ SaveRequest({"c1"})
    \/ SaveResponse({"c1"})

SpecLlm == Init /\ [][LlmNext]_vars

SpecAgent == Init /\ [][AgentNext]_vars

\* The agent store under save and delete alone
SaveDeleteNext ==
    \/ Save
    \/ Delete

SpecSaveDelete == Init /\ [][SaveDeleteNext]_vars

SpecReview == Init /\ [][ReviewNext]_vars

SpecHil == Init /\ [][HilNext]_vars

SpecCtx == Init /\ [][CtxNext]_vars

SpecCost == Init /\ [][CostNext]_vars

SpecList == Init /\ [][ListNext]_vars

\* Calls under two ids, saved and deleted
LlmDeleteNext ==
    \/ SaveRequestIn(CallIds, CallSeqs)
    \/ SaveResponseIn(CallIds, CallSeqs)
    \/ DeleteLlmCall(CallIds)

SpecLlmDelete == Init /\ [][LlmDeleteNext]_vars

\* The chunking of every message list of PackInputs
PackInit ==
    /\ LlmInit /\ AgentInit /\ ReviewInit /\ HilInit /\ CtxInit
    /\ FbIdle /\ UcIdle /\ CacheIdle /\ FpIdle
    /\ SvcIdle
    /\ packIn \in PackInputs
    /\ packOut = NotPacked

PackNext == Pack

SpecPack == PackInit /\ [][PackNext]_vars

FbInit ==
    /\ LlmInit /\ AgentInit /\ ReviewInit /\ HilInit /\ PackIdle /\ CtxInit
    /\ UcIdle /\ CacheIdle /\ FpIdle
    /\ SvcIdle
    /\ fb \in [providers : [1..NumProviders -> ProviderKinds], tokens : TokenCounts,
               out : {NotGenerated}]

FbNext == Generate

SpecFb == FbInit /\ [][FbNext]_vars

UcInit ==
    /\ LlmInit /\ AgentInit /\ ReviewInit /\ HilInit /\ PackIdle /\ CtxInit
    /\ FbIdle /\ CacheIdle /\ FpIdle
    /\ SvcIdle
    /\ uc \in [auth : AuthModes, agent : {NoUser} \cup Users, store : {<<>>}, out : {NotAsked}]

UcNext == RunWithUser \/ RunReturns \/ CallCurrentUser

SpecUser == UcInit /\ [][UcNext]_vars

CacheNext == CtxTick \/ ForeignWrite \/ CacheGet \/ CacheUpdate

SpecCache == Init /\ [][CacheNext]_vars

FpInit ==
    /\ LlmInit /\ AgentInit /\ ReviewInit /\ HilInit /\ PackIdle /\ CtxInit
    /\ FbIdle /\ UcIdle /\ CacheIdle
    /\ SvcIdle
    /\ fp \in [a : FpDiffs, b : FpDiffs, done : {FALSE}, fa : {NotComputed}, fb : {NotComputed}]

FpNext == ComputeFingerprints

SpecFp == FpInit /\ [][FpNext]_vars

FsInit ==
    /\ LlmInit /\ AgentInit /\ ReviewInit /\ HilInit /\ PackIdle /\ CtxInit
    /\ FbIdle /\ UcIdle /\ CacheIdle /\ FpIdle
    /\ GenIdle /\ TkIdle /\ MrDocsIdle /\ RunsIdle
    /\ fs \in [cwd : {BaseDir},
               exists : {{BaseDir}} \cup
                        {{BaseDir, CloneDir, GitDir} \cup tree : tree \in SUBSET TreeDirs},
               last : {NoFsCall}]

FsNext == SetWorkingDirectory \/ CloneProject

SpecFs == FsInit /\ [][FsNext]_vars

GenNext ==
    \/ GenStart
    \/ SaveRequestSettles
    \/ ProviderResponds
    \/ AwaitRequestSave
    \/ SaveResponseSettles

SpecGen == Init /\ [][GenNext]_vars

TkNext == CountTokensStart \/ CountTokensResume

SpecTk == Init /\ [][TkNext]_vars

DocsNext == UpdateCacheOf

SpecDocs == Init /\ [][DocsNext]_vars

RunsNext == RunLoad \/ RunMarkClean \/ RunPersist

SpecRuns == Init /\ [][RunsNext]_vars

Next == LlmNext \/ LlmDeleteNext \/ PackNext \/ AgentNext \/ ReviewNext \/ HilNext \/ CtxNext \/ CostNext
            \/ ListNext \/ FbNext \/ UcNext \/ CacheNext \/ FpNext
            \/ FsNext \/ GenNext \/ TkNext \/ DocsNext \/ RunsNext

Spec == Init /\ [][Next]_vars

\* A successful saveResponse(call) with call.messages = ms happened in this step
SaveResponseDone(id, meta, ms) ==
    /\ SaveOrUpdateLlmCall("saveResponse", id, meta, ms, TRUE)
    /\ llmLast'.ok

\* A successful save of messages ms happened in this step
SaveDone(id, meta, ms) ==
    /\ \/ SaveOrUpdateLlmCall("saveResponse", id, meta, ms, TRUE)
       \/ SaveOrUpdateLlmCall("saveRequest", id, meta, ms, FALSE)
    /\ llmLast'.ok

\* C1: after saveResponse(call), getCall(call.id) returns a call whose messages
\* are deep-equal to call.messages, whether or not the save was chunked.
C1_RoundTrip ==
    [][\A id \in CallIds, meta \in MetaSizes, ms \in MessageSeqs :
            SaveResponseDone(id, meta, ms)
                => (heads'[id].exists /\ getCallMessages(id)' = ms)]_vars

\* C2: every chunked call's chunkCount is the number of its stored chunk
\* documents, and their messages, concatenated in ascending chunkIndex, are the
\* messages of the most recent save.
C2_ChunkInvariant ==
    [][/\ \A id \in CallIds :
            (heads'[id].exists /\ heads'[id].chunkCount > 0)
                => heads'[id].chunkCount = StoredChunkCount(id)'
       /\ \A id \in CallIds, meta \in MetaSizes, ms \in MessageSeqs :
            (SaveDone(id, meta, ms) /\ heads'[id].chunkCount > 0)
                => ChunkMessagesFrom(id, 1)' = ms]_vars

\* C3: every stored agent with a parentAgentId is listed in the childAgents of
\* the stored record of its parent.
C3_ParentListsChild ==
    \A a \in AgentIds :
        (agents[a].exists /\ agents[a].parent # NoParent)
            => /\ agents[agents[a].parent].exists
               /\ a \in agents[agents[a].parent].childAgents

\* C4: a save whose parentAgentId names an agent that is not stored fails and
\* leaves the store unchanged; a child that was absent is still absent on load.
C4_ParentMissing ==
    [][(agLast'.op = "save" /\ ~agLast'.ok)
            => /\ agents' = agents
               /\ ~agents[agLast'.id].exists => ~load(agents', agLast'.id).exists]_vars

\* C4 witness: a child's save was just rejected and the child is absent
C4_Witness ==
    /\ agLast.op = "save"
    /\ ~agLast.ok
    /\ agLast.id # NoParent
    /\ ~load(agents, agLast.id).exists

\* C5: delete never removes an agent in an executing state nor an agent owned by
\* another user.
C5_DeleteSafety ==
    [][\A a \in AgentIds :
            (agents[a].exists /\ ~agents'[a].exists)
                => (~isExecuting(agents[a].state) /\ agents[a].user = CurrentUser)]_vars

\* C6: a child agent is stored only if its parent is stored.
C6_ChildHasParent ==
    \A a \in AgentIds :
        (agents[a].exists /\ agents[a].parent # NoParent) => agents[agents[a].parent].exists

C8_InvalidShapeSkipped ==
    \A u \in UnitIds :
        (rv.results[u].state \in {"null", "ok"} /\ rv.results[u].shape # "array")
            => /\ Fingerprint(u) \notin rv.working.fingerprints
               /\ Fingerprint(u) \notin ArrayToSet(mrCache.fingerprints)
               /\ \A i \in 1..Len(notes) :
                    notes[i].body # CommentBody(ViolationIdentifier(u, CharComment),
                                                CharComment.comment)

\* The identifier a posted note was built with
EmbeddedIdentifier(body) == SubSeq(body, 2, Len(body) - 3)

C10_TerminalSink ==
    [][(agents[HilAgent].exists /\ agents[HilAgent].state \in TerminalStates)
            => agents'[HilAgent].state = agents[HilAgent].state]_vars

\* C11: the stored cost of an agent never decreases from one stored record of
\* the agent to the next, whatever calls save the agent.
C11_CostNonDecreasing ==
    [][\A a \in CtxIds :
        (ctxDocs[a].exists /\ ctxDocs'[a].exists) => ctxDocs'[a].cost >= ctxDocs[a].cost]_vars

\* C12: while checkHumanInTheLoop waits for the human at the iteration gate,
\* the state of the agent is hitl_threshold, in memory and in the store.
C12_IterationGateState ==
    hil.pc = "hilCount"
        => (hil.state = "hitl_threshold" /\ agents[HilAgent].state = "hitl_threshold")

\* C13: while checkHumanInTheLoop waits for the human at the budget gate, the
\* state of the agent is hil, in memory and in the store.
C13_BudgetGateState ==
    hil.pc = "hilBudget" => (hil.state = "hil" /\ agents[HilAgent].state = "hil")

\* A save of messages ms under metadata of size meta has to chunk
HasToChunk(meta, ms) == meta + MessagesKey + ArraySize(ms) >= MAX_DOC_SIZE

\* Message m alone does not fit in a chunk document
ExceedsChunkEnvelope(m) == EnvelopeBase + IdLen + 1 + 2 + m.size > MAX_DOC_SIZE

\* C14: a save that has to chunk and has a message that does not fit in a
\* chunk document fails, and no head or chunk document is created or modified.
C14_TooLargeNoWrite ==
    [][\A op \in {"saveRequest", "saveResponse"}, id \in CallIds, meta \in MetaSizes,
          ms \in CallSeqs, merge \in BOOLEAN :
        ( /\ HasToChunk(meta, ms)
          /\ \E i \in 1..Len(ms) : ExceedsChunkEnvelope(ms[i])
          /\ SaveOrUpdateLlmCall(op, id, meta, ms, merge) )
            => (~llmLast'.ok /\ heads' = heads /\ chunks' = chunks)]_vars

\* C14 witness: a saveResponse was rejected for a call whose head is stored
C14_Witness ==
    /\ llmLast.op = "saveResponse"
    /\ ~llmLast.ok
    /\ heads[llmLast.id].exists

\* C15: after a chunked save the head document has a chunkCount of at least
\* one and carries no messages, whatever was stored under the id before.
C15_ChunkedHeadNoMessages ==
    (llmLast.op \in {"saveRequest", "saveResponse"} /\ llmLast.ok /\ llmLast.chunked)
        => (heads[llmLast.id].chunkCount >= 1 /\ ~heads[llmLast.id].hasMessages)

\* C16: every chunk document of a chunked save of a message list that passed
\* the single-message check has an estimated size of at most MAX_DOC_SIZE at
\* its chunk index, and the chunks hold the messages of the list in order.
C16_ChunksWithinLimit ==
    (packOut.done /\ packOut.chunked /\ ~packOut.rejected)
        => /\ \A k \in 1..Len(packOut.chunks) :
                EnvelopeBase + IdLen + Digits(k) + ArraySize(packOut.chunks[k]) <= MAX_DOC_SIZE
           /\ Flatten(packOut.chunks) = packIn

\* C17: delete(llmCallId) removes the head and every chunk document of the
\* call and leaves the documents of every other call as they were; getCall of
\* the deleted call is absent afterwards.
C17_DeleteRemovesCall ==
    [][\A id \in CallIds :
        (llmLast'.op = "delete" /\ llmLast'.id = id /\ llmLast' # llmLast)
            => /\ ~heads'[id].exists
               /\ \A k \in ChunkIdx : ~chunks'[id][k].exists
               /\ \A o \in CallIds \ {id} : heads'[o] = heads[o] /\ chunks'[o] = chunks[o]
               /\ ~getCall(id)'.found]_vars

\* C17 witness: a chunked call was deleted while the other call, chunked too,
\* is still stored
C17_Witness ==
    /\ llmLast.op = "delete"
    /\ llmLast.chunked
    /\ \E o \in CallIds \ {llmLast.id} : heads[o].exists /\ chunks[o][1].exists

\* C18: updateState leaves every field of the stored record other than state
\* and lastUpdate as it was, also when the context object differs from the
\* record in those fields.
C18_UpdateStateFrame ==
    [][\A a \in CtxIds, st \in RunnerStates, ok \in BOOLEAN :
        ( /\ ctxLast' = [op |-> "updateState", id |-> a, ok |-> ok,
                         differed |-> CtxDiffers(ctxMem[a], ctxDocs[a])]
          /\ ctxLast' # ctxLast )
            => /\ ctxDocs'[a].exists = ctxDocs[a].exists
               /\ ctxDocs'[a].cost = ctxDocs[a].cost
               /\ ctxDocs'[a].functions = ctxDocs[a].functions
               /\ \A b \in CtxIds \ {a} : ctxDocs'[b] = ctxDocs[b]]_vars

\* C18 witness: updateState succeeded with a context object whose functions
\* differed from those of the stored record, and the record kept its own
C18_Witness ==
    /\ ctxLast.op = "updateState"
    /\ ctxLast.ok
    /\ ctxLast.differed
    /\ ctxDocs[ctxLast.id].functions # ctxMem[ctxLast.id].functions

\* C19: the state and lastUpdate of the context object change only in an
\* updateState whose write succeeded (they then are the written values); a
\* failed updateState leaves them as they were.
C19_ContextAfterWrite ==
    [][\A a \in CtxIds :
        \/ /\ ctxMem'[a].state = ctxMem[a].state
           /\ ctxMem'[a].lastUpdate = ctxMem[a].lastUpdate
        \/ /\ ctxLast'.op = "updateState" /\ ctxLast'.id = a /\ ctxLast'.ok
           /\ ctxDocs'[a].exists
           /\ ctxDocs'[a].state = ctxMem'[a].state
           /\ ctxDocs'[a].lastUpdate = ctxMem'[a].lastUpdate]_vars

\* C19 witness: an updateState failed on a stored agent for a state and at a
\* time that differ from those of its context object
C19_Witness ==
    /\ ctxLast.op = "updateState"
    /\ ~ctxLast.ok
    /\ ctxDocs[ctxLast.id].exists
    /\ ctxMem[ctxLast.id].state = "agent"
    /\ ctxMem[ctxLast.id].lastUpdate # clock

\* The agent ids of a list of contexts
ListedIds(result) == { result[i].agentId : i \in 1..Len(result) }

\* C20: listRunning returns each stored agent whose state is not completed,
\* shutdown or timeout once, and no other agent.
C20_ListRunningExact ==
    listed.done
        => /\ ListedIds(listed.result) =
                { a \in CtxIds : ctxDocs[a].exists
                                 /\ ctxDocs[a].state \notin {"completed", "shutdown", "timeout"} }
           /\ Len(listed.result) = Cardinality(ListedIds(listed.result))

\* C20 witness: an agent in state error was listed and a stored agent in a
\* terminal state was not
C20_Witness ==
    /\ listed.done
    /\ \E i \in 1..Len(listed.result) : listed.result[i].state = "error"
    /\ \E a \in CtxIds : ctxDocs[a].exists /\ ctxDocs[a].state = "timeout"

\* C21: a delete removes every agent of ids that is stored, owned by the
\* caller, in a terminal state and without a parent, together with all the
\* children it lists; a delete whose ids are all stored children removes nothing.
C21_DeleteParentCascade ==
    [][\A ids \in SUBSET AgentIds :
        ( /\ ids # {}
          /\ agLast'.op = "delete"
          /\ agents' = [a \in AgentIds |->
                          IF a \in DeleteBatch(agents, ids) THEN NoAgent ELSE agents[a]] )
            => /\ \A p \in ids :
                    ( /\ agents[p].exists
                      /\ agents[p].user = CurrentUser
                      /\ agents[p].state \in {"completed", "shutdown", "timeout"}
                      /\ agents[p].parent = NoParent )
                        => /\ ~agents'[p].exists
                           /\ \A c \in agents[p].childAgents : ~agents'[c].exists
               /\ (\A c \in ids : agents[c].exists /\ agents[c].parent # NoParent)
                    => agents' = agents]_vars

\* C21 witness: a delete removed a parent together with a stored child, and
\* no agent is left
C21_Witness ==
    /\ agLast.op = "delete"
    /\ agLast.id # NoParent
    /\ \A a \in AgentIds : ~agents[a].exists

C27_SecondReviewTouchesCache ==
    (rv.pc = "idle" /\ rv.runNo = 2 /\ rv.loaded.fingerprints = AllFingerprints)
        => /\ mrCache.lastUpdated > rv.loaded.lastUpdated
           /\ ArrayToSet(mrCache.fingerprints) = rv.loaded.fingerprints

\* C28: when the merge request has no diff refs, the handling of a violation
\* comment whose identifier is not a duplicate posts one note of the bot
C28_PostedWithoutPosition ==
    [][(/\ rv.pc = "handle"
        /\ rv.ri <= Len(Diffs)
        /\ HasComments(rv.results[rv.ri].comments)
        /\ ~rv.refs
        /\ ~AlreadyCommented(rv.existing,
                ViolationIdentifier(rv.ri, rv.results[rv.ri].comments.items[rv.ci]))
        /\ rv' # rv)
          => /\ Len(notes') = Len(notes) + 1
             /\ notes'[Len(notes')].author = BOT_USER_ID]_vars

\* C29: while unit LLM calls are pending no note is posted and neither the
\* known identifiers, the working cache nor the stored cache change; result
\* handling starts only when every call has settled, and it goes through the
\* units in order, each step touching the identifiers and the fingerprint of
\* the unit being handled only
C29_SerialResultHandling ==
    [][/\ rv.pc = "llm"
            => /\ notes' = notes
               /\ mrCache' = mrCache
               /\ rv'.existing = rv.existing
               /\ rv'.working = rv.working
       /\ rv'.pc = "handle" => \A u \in UnitIds : rv'.results[u].state # "pending"
       /\ (rv.pc = "handle" /\ rv'.pc = "handle")
            => /\ rv'.results = rv.results
               /\ rv'.ri >= rv.ri
               /\ rv'.working.fingerprints \subseteq
                      rv.working.fingerprints \cup {Fingerprint(rv.ri)}
               /\ rv'.existing \subseteq
                      rv.existing \cup
                        {ViolationIdentifier(rv.ri, rv.results[rv.ri].comments.items[i]) :
                            i \in 1..Len(rv.results[rv.ri].comments.items)}]_vars

\* Both units were reviewed, a note was posted for the first one and the
\* second one is being handled
C29_Witness ==
    /\ rv.pc = "handle"
    /\ rv.llmCalls = UnitIds
    /\ rv.ri = 2
    /\ rv.results[1].state = "ok"
    /\ \E i \in 1..Len(notes) : notes[i].author = BOT_USER_ID

\* The providers a call attempts: configured and with an input limit not
\* below the token count
Attempted ==
    {i \in 1..NumProviders :
        fb.providers[i].configured /\ fb.providers[i].maxInputTokens >= fb.tokens}

\* C23: a call of the composite LLM returns the result of the first attempted
\* provider that does not fail, having invoked the attempted providers up to
\* that one in list order and no later one; it fails with "All providers
\* failed." exactly when no attempted provider succeeds, having invoked every
\* attempted provider
C23_FirstSuccessfulProvider ==
    fb.out # NotGenerated =>
        LET Succeeding == {i \in Attempted : ~fb.providers[i].fails}
            last == IF Succeeding = {} THEN NumProviders ELSE MinOf(Succeeding)
            invoked == fb.out.invoked
        IN /\ IF Succeeding = {}
              THEN fb.out.status = "All providers failed." /\ fb.out.by = 0
              ELSE fb.out.status = "ok" /\ fb.out.by = last
           /\ {invoked[k] : k \in 1..Len(invoked)} = {i \in Attempted : i <= last}
           /\ \A k \in 1..(Len(invoked) - 1) : invoked[k] < invoked[k + 1]

\* P1 is not configured, P2 takes 1000 tokens, P3 fails: an input of 2000
\* tokens reaches P3 only and the call fails
C23_Witness ==
    /\ ~fb.providers[1].configured
    /\ fb.providers[2].configured /\ fb.providers[2].maxInputTokens = 1000
    /\ fb.providers[3].configured /\ fb.providers[3].maxInputTokens = 3000
    /\ fb.providers[3].fails
    /\ fb.tokens = 2000
    /\ fb.out.status = "All providers failed."
    /\ fb.out.invoked = <<3>>

\* C24: currentUser() returns the agent's user when there is an agent,
\* otherwise the user of the innermost runWithUser, otherwise the single user
\* when AUTH is unset, empty or single_user, and otherwise fails
C24_CurrentUserPrecedence ==
    uc.out # NotAsked =>
        IF uc.agent # NoUser THEN uc.out = [status |-> "ok", user |-> uc.agent]
        ELSE IF Len(uc.store) > 0
        THEN uc.out = [status |-> "ok", user |-> uc.store[Len(uc.store)]]
        ELSE IF uc.auth \in {"unset", "", "single_user"}
        THEN uc.out = [status |-> "ok", user |-> SingleUser]
        ELSE /\ uc.out.status = "User has not been set on the userContextStorage"
             /\ uc.out.user = NoUser

\* Without an agent and outside single-user mode, a call nested in two
\* runWithUser calls gets the inner user
C24_Witness ==
    /\ uc.agent = NoUser
    /\ uc.auth = "google_iap"
    /\ uc.store = <<"u1", "u2">>
    /\ uc.out = [status |-> "ok", user |-> "u2"]

\* C25: getMergeRequestReviewCache returns the empty cache for an absent
\* document, for a document whose fingerprints is not an array or whose
\* lastUpdated is not a number, and for a failing read
C25_GetReturnsEmptyCache ==
    (/\ cacheGot.op = "get"
     /\ \/ ~cacheGot.ok
        \/ ~cacheGot.doc.exists
        \/ cacheGot.doc.shape \in {"fingerprintsNotArray", "lastUpdatedNotNumber"})
        => cacheGot.cache = [lastUpdated |-> 0, fingerprints |-> {}]

\* A document with fingerprints stored in a field that is not an array was read
C25_Witness ==
    /\ cacheGot.op = "get"
    /\ cacheGot.ok
    /\ cacheGot.doc.exists
    /\ cacheGot.doc.shape = "fingerprintsNotArray"
    /\ cacheGot.doc.lastUpdated > 0
    /\ cacheGot.cache = EmptyCache

\* C26: after a successful updateMergeRequestReviewCache, a get returns the
\* fingerprints of the object passed and the time of the update as
\* lastUpdated, whatever the document and the object's lastUpdated were
C26_UpdateOverwrites ==
    (cacheGot.op = "update" /\ cacheGot.ok)
        => getMergeRequestReviewCache(mrCache, TRUE) =
              [lastUpdated |-> cacheGot.at, fingerprints |-> cacheGot.arg.fingerprints]

\* A document with a fingerprint was overwritten by an object without it and
\* with another lastUpdated than the time of the update
C26_Witness ==
    /\ cacheGot.op = "update"
    /\ cacheGot.ok
    /\ cacheGot.doc.exists
    /\ cacheGot.doc.shape = "valid"
    /\ ~(ArrayToSet(cacheGot.doc.fingerprints) \subseteq cacheGot.arg.fingerprints)
    /\ cacheGot.arg.lastUpdated # cacheGot.at
    /\ ArrayToSet(mrCache.fingerprints) = cacheGot.arg.fingerprints

\* The contents of the added and context lines of a diff
KeptContents(diff) ==
    LET kept == SelectSeq(diff.lines, LAMBDA l : l[1] \in {"+", " "})
    IN [i \in 1..Len(kept) |-> kept[i][2]]

\* C30: two diffs of the same file whose added and context lines have the
\* same contents get the same fingerprint, whatever their hunk positions
C30_FingerprintIgnoresPositions ==
    (fp.done /\ fp.a.new_path = fp.b.new_path /\ KeptContents(fp.a) = KeptContents(fp.b))
        => fp.fa = fp.fb

\* C31: an update of an existing clone by cloneProject ends, whether it
\* returns or throws, with the working directory it started with
C31_WorkingDirectoryRestored ==
    fs.last.op = "update" => fs.cwd = fs.last.before

\* C32: saveResponse is called for a call only after the saveRequest of the
\* call has completed, whether the provider answers before or after it
C32_ResponseAfterRequest ==
    /\ gen.resp # "none" => gen.req = "saved"
    /\ gen.req = "pending" => (gen.resp = "none" /\ gen.saved = <<>>)

\* The provider has answered, the saveRequest has completed and saveResponse
\* is in flight
C32_Witness ==
    /\ gen.prov = "ok"
    /\ gen.req = "saved"
    /\ gen.resp = "pending"
    /\ gen.pc = "savingResponse"

\* C33: a generate whose provider call succeeded returns the assistant
\* message, whether saveRequest and saveResponse succeed or reject
C33_StoreFailureNotMasking ==
    (gen.pc = "done" /\ gen.prov = "ok") => gen.out = "message"

\* C34: an update of the cache of one (project id, merge request) pair leaves
\* what get returns for every other pair as it was
C34_CachesIndependent ==
    [][\A p \in CacheProjectIds, m \in CacheMrIids :
        (mrDocs'.docs # mrDocs.docs /\ <<p, m>> # mrDocs'.last)
            => getMergeRequestReviewCache(mrDocs'.docs[getMRCacheDocId(p, m)], TRUE)
                 = getMergeRequestReviewCache(mrDocs.docs[getMRCacheDocId(p, m)], TRUE)]_vars

\* C35: a fingerprint that a run adds to its working cache belongs to a unit
\* whose review in this run returned an array of zero violations
C35_CachedOnlyWhenClean ==
    \A u \in UnitIds :
        (Fingerprint(u) \in rv.working.fingerprints \ rv.loaded.fingerprints)
            => /\ rv.results[u].state = "ok"
               /\ rv.results[u].comments = [type |-> "array", items |-> <<>>]

\* C36: when the review of a unit failed, the run, if no post and no cache
\* write failed in it, ends with the fingerprint of every other unit that was
\* reviewed clean in the stored cache and, the merge request having diff refs,
\* with a note of the bot for every violation of every other unit
C36_FailedUnitDoesNotBlock ==
    (/\ rv.pc = "idle"
     /\ rv.runNo > 0
     /\ ~rv.failed
     /\ \E u \in UnitIds : rv.results[u].state = "null")
        => \A v \in UnitIds :
            rv.results[v].state = "ok"
                => IF HasComments(rv.results[v].comments)
                   THEN rv.refs =>
                          \A i \in 1..Len(rv.results[v].comments.items) :
                             ViolationIdentifier(v, rv.results[v].comments.items[i])
                                \in ExistingViolationIdentifiers(notes)
                   ELSE Fingerprint(v) \in ArrayToSet(mrCache.fingerprints)

\* The review of the first unit failed; the second unit was reviewed clean and
\* its fingerprint was persisted
C36_Witness ==
    /\ rv.pc = "idle"
    /\ ~rv.failed
    /\ rv.results[1].state = "null"
    /\ rv.results[1].shape = "error"
    /\ rv.results[2].state = "ok"
    /\ ~HasComments(rv.results[2].comments)
    /\ Fingerprint(2) \in ArrayToSet(mrCache.fingerprints)

\* C37: the messages of the LlmCall passed to saveResponse are the request
\* messages followed by one assistant message with the response
C37_ResponseMessagesAppended ==
    gen.resp # "none" => gen.saved = Append(gen.messages, ResponseMessage)

\* C38: the save that ends updateFunctions leaves the stored state and cost of
\* every agent as it finds them
C38_UpdateFunctionsFrame ==
    [][(/\ ctxLoaded.active
        /\ ~ctxLoaded'.active
        /\ ctxLast'.op = "updateFunctions"
        /\ ctxLast'.ok)
          => \A a \in CtxIds :
                /\ ctxDocs'[a].state = ctxDocs[a].state
                /\ ctxDocs'[a].cost = ctxDocs[a].cost]_vars

\* C39: when two review runs of the merge request that both read the cache
\* have persisted, the stored cache holds every fingerprint that either run
\* loaded and every fingerprint that either run wrote
C39_OverlappingRunsMonotonic ==
    (\A r \in RunIds : runs[r].pc = "done" /\ runs[r].readOk)
        => \A r \in RunIds :
              (runs[r].loaded \cup runs[r].wrote) \subseteq ArrayToSet(mrCache.fingerprints)

\* C40: the tokenizer is created at most once and every countTokens call that
\* has returned used the same instance
C40_TokenizerCreatedOnce ==
    /\ tk.created <= 1
    /\ \A c, d \in TkCallers :
        (tk.calls[c].pc = "done" /\ tk.calls[d].pc = "done")
            => tk.calls[c].used = tk.calls[d].used

====
